---- MODULE Spec2Model ----
(***************************************************************************)
(* Verification model of the simulation substrate: the masked discrete     *)
(* Laplacian builders and the Crank-Nicolson diffusion step of             *)
(* nlisim/diffusion.py, the life of the agents of the macrophage and       *)
(* phagocyte modules (placement, uptake, chemotaxis, TGFB), the kinetics   *)
(* and sampling primitives of nlisim/util.py, and the advance steps of the *)
(* TAFC and erythrocyte modules of nlisim/modulesv2.                       *)
(*                                                                         *)
(* Real numbers are modelled exactly as scaled integers or fractions:      *)
(*   - a Laplacian entry l stands for l / WeightScale (units 1/um^2);      *)
(*   - a field is a record [n |-> numerators, d |-> common denominator];   *)
(*   - D*dt/2 is the pair halfDdt = <<numerator, denominator>>.            *)
(***************************************************************************)
EXTENDS Integers, Sequences, FiniteSets, TLC

VARIABLES
    shape,      \* grid.shape = <<z_extent, y_extent, x_extent>>
    mask,       \* mask[flattened index] : BOOLEAN
    delta,      \* delta[axis][coordinate along axis] : grid spacing (axis 1=z, 2=y, 3=x)
    built,      \* which builder produced `laplacian`: "none", "absorbing", "periodic"
    laplacian,  \* laplacian[i][j], the matrix returned by the builder
    variable,   \* the concentration field, [n |-> numerators, d |-> denominator]
    halfDdt,    \* diffusivity * dt / 2 as <<numerator, denominator>>
    grid_a,     \* the matrix `a` built by apply_grid_diffusion
    grid_b,     \* the matrix `b` built by apply_grid_diffusion
    cn_a,       \* first matrix returned by assemble_mesh_laplacian_crank_nicholson
    cn_b,       \* second matrix returned by assemble_mesh_laplacian_crank_nicholson
    info,       \* status returned by the last cg call
    result,     \* solution vector returned by the last cg call
    call,       \* last diffusion call: "none", "grid", "mesh"
    raised,     \* the last diffusion call ended with an exception
    before,     \* the field at the start of the last diffusion call
    ticks,      \* number of diffusion calls made
    tissue,     \* tissue[flattened index] : tissue type of the voxel
    molecule,   \* molecule[flattened index] : level of the attractant field
    drift_bias, \* DRIFT_BIAS in units of 1/LogisticScale
    cells,      \* the population: sequence of [point, voxel, status, iron_pool]
    pre_cells,  \* the population at the start of the last call on the population
    moves,      \* per agent, the locals of its iteration in the last chemotaxis pass
    chemo,      \* last call on the population: "none", "idle", "initialize",
                \* "macrophage", "phagocyte", "advance", "tgfb"
    crashed,    \* the last call on the population ended with an exception
    passes,     \* number of advance calls and chemotaxis passes made
    generators, \* per random generator, the number of calls that consumed from it
    draws,      \* the uniform values drawn for the last chemotaxis pass, in order
    tgfb_grid,  \* tgfb.grid[flattened index]: [n |-> secretions added, deg |-> decays applied]
    util_call,  \* the last nlisim.util function called, "none" before any call
    util_args,  \* its arguments
    util_out,   \* what it returned or raised
    tafc,         \* state.tafc.grid: [TAFC, TAFCBI], each an array of amounts per voxel
    transferrin,  \* state.transferrin.grid: [Tf, TfFe, TfFe2]
    iron_grid,    \* state.iron.grid
    afumigatus,   \* state.afumigatus.cells: sequence of fungal cells
    erythrocyte,  \* state.erythrocyte.cells: [count, hemoglobin, hemorrhage]
    hemoglobin,   \* state.hemoglobin.grid
    hemolysin,    \* state.hemolysin.grid
    config,       \* the configured parameters of the modules
    module_call,  \* the last advance called: "none", "tafc", "erythrocyte"
    module_raised,\* the exception it ended with, "none" when it returned
    locals        \* values of the local variables of the last advance

lapVars == <<shape, mask, delta, built, laplacian>>

diffVars == <<variable, halfDdt, grid_a, grid_b, cn_a, cn_b, info, result, call, raised,
              before, ticks>>

chemoVars == <<tissue, molecule, drift_bias, cells, pre_cells, moves, chemo, crashed, passes,
               generators, draws, tgfb_grid>>

utilVars == <<util_call, util_args, util_out>>

moduleVars == <<tafc, transferrin, iron_grid, afumigatus, erythrocyte, hemoglobin, hemolysin,
                config, module_call, module_raised, locals>>

vars == <<lapVars, diffVars, chemoVars, utilVars, moduleVars>>

(***************************************************************************)
(* Bounds                                                                  *)
(***************************************************************************)
MaxExtent == 3      \* largest axis extent of an enumerated grid
MaxCells == 6       \* largest number of voxels of a grid whose masks are all enumerated
Deltas == {1, 2}    \* grid spacings an axis may have at a coordinate
MaxLine == 3        \* largest extent of the one-axis grids a diffusion step is solved on
MaxAmount == 1      \* largest initial amount in a voxel of the field
MaxTicks == 1       \* number of diffusion calls in a behaviour
MaxAgents == 2      \* largest population
MaxPasses == 1      \* number of chemotaxis passes in a behaviour
DrawDen == 4        \* a uniform draw is one of 0/DrawDen .. (DrawDen-1)/DrawDen
MaxLevel == 2       \* largest level of the attractant field
MaxInitNum == 1     \* largest init_num of Macrophage.initialize
MaxVoxels == 3      \* largest number of voxels offered to choose_voxel_by_prob
MaxWeight == 2      \* largest weight of a voxel offered to choose_voxel_by_prob
MaxEntries == 2     \* largest length of an array passed to a kinetics primitive
MaxX == 2           \* largest amount in an entry of such an array
MaxDecay == 2       \* largest base_turnover_rate * rel_cyt_bind_unit_t, in units of ln 2
MaxPoisson == 2     \* largest outcome of a Poisson draw

(***************************************************************************)
(* Arithmetic helpers                                                      *)
(***************************************************************************)
RECURSIVE SetProduct(_)
SetProduct(S) ==
    IF S = {} THEN 1
    ELSE LET e == CHOOSE e \in S : TRUE IN e * SetProduct(S \ {e})

RECURSIVE SumTo(_, _)
\* f[0] + ... + f[n-1]
SumTo(f, n) == IF n = 0 THEN 0 ELSE f[n - 1] + SumTo(f, n - 1)

RECURSIVE SumSeq(_)
SumSeq(s) == IF s = << >> THEN 0 ELSE Head(s) + SumSeq(Tail(s))

Abs(a) == IF a < 0 THEN -a ELSE a

\* every 1/d^2 with d in Deltas is an integer multiple of 1/WeightScale
WeightScale == SetProduct({d * d : d \in Deltas})

(***************************************************************************)
(* Rectangular grid                                                        *)
(***************************************************************************)
NumCells(sh) == sh[1] * sh[2] * sh[3]

Indices(sh) == 0 .. (NumCells(sh) - 1)

\* grid.get_flattened_index: row-major over (z, y, x)
get_flattened_index(sh, v) == (v.z * sh[2] + v.y) * sh[3] + v.x

\* inverse of get_flattened_index
get_voxel_of_index(sh, i) ==
    [x |-> i % sh[3], y |-> (i \div sh[3]) % sh[2], z |-> i \div (sh[3] * sh[2])]

is_valid_voxel(sh, v) ==
    /\ 0 <= v.x /\ v.x < sh[3]
    /\ 0 <= v.y /\ v.y < sh[2]
    /\ 0 <= v.z /\ v.z < sh[1]

\* the six face directions as (dk, dj, di)
FaceOffsets == << <<-1, 0, 0>>, <<1, 0, 0>>, <<0, -1, 0>>, <<0, 1, 0>>, <<0, 0, -1>>, <<0, 0, 1>> >>

\* grid.get_adjacent_voxels(voxel, corners=False): the in-bounds face neighbours
get_adjacent_voxels(sh, v) ==
    { n \in { [x |-> v.x + FaceOffsets[o][3], y |-> v.y + FaceOffsets[o][2],
               z |-> v.z + FaceOffsets[o][1]] : o \in 1 .. 6 } : is_valid_voxel(sh, n) }

\* grid.delta(axis)[k, j, i]: the spacing of voxel (k, j, i) along the axis
delta_z(dl, v) == dl[1][v.z]
delta_y(dl, v) == dl[2][v.y]
delta_x(dl, v) == dl[3][v.x]

\* 1 / (dx*dx + dy*dy + dz*dz) in units of 1/WeightScale
inverse_distance2(dx, dy, dz) == WeightScale \div (dx * dx + dy * dy + dz * dz)

RECURSIVE SumSet(_, _)
\* sum of f[e] over the elements e of S
SumSet(f, S) ==
    IF S = {} THEN 0
    ELSE LET e == CHOOSE e \in S : TRUE IN f[e] + SumSet(f, S \ {e})

(***************************************************************************)
(* discrete_laplacian (absorbing boundary)                                 *)
(***************************************************************************)
\* mutant: the diagonal is not updated
discrete_laplacian_nodiag(sh, mk, dl) ==
    [vi \in Indices(sh) |-> [c \in Indices(sh) |->
        IF ~mk[vi] THEN 0
        ELSE LET voxel == get_voxel_of_index(sh, vi)
                 nbrs == { n \in get_adjacent_voxels(sh, voxel) : mk[get_flattened_index(sh, n)] }
                 w == [n \in nbrs |->
                          inverse_distance2(delta_x(dl, voxel) * (voxel.x - n.x),
                                            delta_y(dl, voxel) * (voxel.y - n.y),
                                            delta_z(dl, voxel) * (voxel.z - n.z))]
                 contrib == [n \in nbrs |->
                          (IF c = get_flattened_index(sh, n) THEN w[n] ELSE 0)]
             IN SumSet(contrib, nbrs)]]

\* mutant: neighbours outside the mask are not skipped
discrete_laplacian_nomask(sh, mk, dl) ==
    [vi \in Indices(sh) |-> [c \in Indices(sh) |->
        IF ~mk[vi] THEN 0
        ELSE LET voxel == get_voxel_of_index(sh, vi)
                 nbrs == get_adjacent_voxels(sh, voxel)
                 w == [n \in nbrs |->
                          inverse_distance2(delta_x(dl, voxel) * (voxel.x - n.x),
                                            delta_y(dl, voxel) * (voxel.y - n.y),
                                            delta_z(dl, voxel) * (voxel.z - n.z))]
                 contrib == [n \in nbrs |->
                          (IF c = vi THEN -w[n] ELSE 0)
                          + (IF c = get_flattened_index(sh, n) THEN w[n] ELSE 0)]
             IN SumSet(contrib, nbrs)]]

discrete_laplacian(sh, mk, dl) ==
    [vi \in Indices(sh) |-> [c \in Indices(sh) |->
        IF ~mk[vi] THEN 0
        ELSE LET voxel == get_voxel_of_index(sh, vi)
                 nbrs == { n \in get_adjacent_voxels(sh, voxel) : mk[get_flattened_index(sh, n)] }
                 w == [n \in nbrs |->
                          inverse_distance2(delta_x(dl, voxel) * (voxel.x - n.x),
                                            delta_y(dl, voxel) * (voxel.y - n.y),
                                            delta_z(dl, voxel) * (voxel.z - n.z))]
                 contrib == [n \in nbrs |->
                          (IF c = vi THEN -w[n] ELSE 0)
                          + (IF c = get_flattened_index(sh, n) THEN w[n] ELSE 0)]
             IN SumSet(contrib, nbrs)]]

(***************************************************************************)
(* periodic_discrete_laplacian                                             *)
(***************************************************************************)
\* the neighbour of `voxel` in direction o, wrapped modulo each axis extent
periodic_neighbor(sh, voxel, o) ==
    [x |-> (voxel.x + FaceOffsets[o][3]) % sh[3],
     y |-> (voxel.y + FaceOffsets[o][2]) % sh[2],
     z |-> (voxel.z + FaceOffsets[o][1]) % sh[1]]

\* mutant: index arithmetic is not wrapped, out-of-range neighbours are skipped
periodic_discrete_laplacian_nowrap(sh, mk, dl) ==
    discrete_laplacian(sh, mk, dl)

periodic_discrete_laplacian(sh, mk, dl) ==
    [vi \in Indices(sh) |-> [c \in Indices(sh) |->
        IF ~mk[vi] THEN 0
        ELSE LET voxel == get_voxel_of_index(sh, vi)
                 contrib == [o \in 1 .. 6 |->
                     LET neighbor == periodic_neighbor(sh, voxel, o)
                         neighbor_index == get_flattened_index(sh, neighbor)
                         w == inverse_distance2(delta_x(dl, voxel) * FaceOffsets[o][3],
                                                delta_y(dl, voxel) * FaceOffsets[o][2],
                                                delta_z(dl, voxel) * FaceOffsets[o][1])
                     IN IF ~mk[neighbor_index] THEN 0
                        ELSE (IF c = vi THEN -w ELSE 0) + (IF c = neighbor_index THEN w ELSE 0)]
             IN SumSeq(contrib)]]

(***************************************************************************)
(* Exact linear algebra on scaled integer matrices                         *)
(*                                                                         *)
(* A matrix is a record [m |-> integer entries, s |-> scale] standing for  *)
(* m / s; a vector is a record [n |-> numerators, d |-> denominator].      *)
(***************************************************************************)
RECURSIVE Gcd(_, _)
Gcd(a, b) == IF b = 0 THEN a ELSE Gcd(b, a % b)

RECURSIVE GcdTo(_, _)
\* gcd of |f[0]|, ..., |f[n-1]|
GcdTo(f, n) == IF n = 0 THEN 0 ELSE Gcd(Abs(f[n - 1]), GcdTo(f, n - 1))

\* the fraction vector with numerators n and non-zero denominator d, in lowest terms
Fraction(n, d, len) ==
    LET g == Gcd(Abs(d), GcdTo(n, len))
        sgn == IF d < 0 THEN -1 ELSE 1
    IN [n |-> [i \in DOMAIN n |-> sgn * (n[i] \div g)], d |-> Abs(d) \div g]

RECURSIVE Det(_, _, _)
\* determinant of the submatrix of m on the rows and columns listed in rs and cs
Det(m, rs, cs) ==
    IF rs = << >> THEN 1
    ELSE LET r == Head(rs)
             term(k) == (IF k % 2 = 1 THEN 1 ELSE -1) * m[r][cs[k]]
                          * Det(m, Tail(rs), SubSeq(cs, 1, k - 1) \o SubSeq(cs, k + 1, Len(cs)))
         IN SumSeq([k \in 1 .. Len(cs) |-> IF m[r][cs[k]] = 0 THEN 0 ELSE term(k)])

IndexSeq(len) == [k \in 1 .. len |-> k - 1]

Determinant(m, len) == Det(m, IndexSeq(len), IndexSeq(len))

\* m with column c replaced by the vector v
ReplaceColumn(m, c, v) == [i \in DOMAIN m |-> [j \in DOMAIN m[i] |-> IF j = c THEN v[i] ELSE m[i][j]]]

\* the product `matrix @ vector`
MatVec(mat, vec, len) ==
    Fraction([i \in 0 .. (len - 1) |-> SumTo([j \in 0 .. (len - 1) |-> mat.m[i][j] * vec.n[j]], len)],
             mat.s * vec.d, len)

\* the exact solution x of mat x = rhs (Cramer's rule), for a non-singular mat
ExactSolve(mat, rhs, len) ==
    LET scaled == [i \in 0 .. (len - 1) |-> mat.s * rhs.n[i]]
    IN Fraction([i \in 0 .. (len - 1) |-> Determinant(ReplaceColumn(mat.m, i, scaled), len)],
                Determinant(mat.m, len) * rhs.d, len)

IsSingular(mat, len) == Determinant(mat.m, len) = 0

\* eye(n) + sign * (c[1] / c[2]) * L, where L stands for lap / WeightScale
EyePlus(lap, c, sign, len) ==
    [m |-> [i \in 0 .. (len - 1) |-> [j \in 0 .. (len - 1) |->
               (IF i = j THEN c[2] * WeightScale ELSE 0) + sign * c[1] * lap[i][j]]],
     s |-> c[2] * WeightScale]

\* sum of the entries of a vector, as <<numerator, denominator>>
Total(vec, len) == <<SumTo(vec.n, len), vec.d>>

\* np.maximum(0.0, x) and np.clip(x, 0, inf)
ClipAtZero(vec) == [n |-> [i \in DOMAIN vec.n |-> IF vec.n[i] < 0 THEN 0 ELSE vec.n[i]], d |-> vec.d]

HasNegative(vec) == \E i \in DOMAIN vec.n : vec.n[i] < 0

(***************************************************************************)
(* scipy.sparse.linalg.cg                                                  *)
(*                                                                         *)
(* The outcomes <<x, info>> of a call: with info = 0 the solution to       *)
(* tolerance, modelled as the exact solution; with info > 0 (tolerance not *)
(* reached) or info < 0 (illegal input or breakdown) a best-effort vector. *)
(***************************************************************************)
BestEffort(len) == { [n |-> f, d |-> 1] : f \in [0 .. (len - 1) -> {-1, 2}] }

cg(mat, rhs, len) ==
    (IF IsSingular(mat, len) THEN {} ELSE { <<ExactSolve(mat, rhs, len), 0>> })
    \cup { <<x, i>> : x \in BestEffort(len), i \in {-1, 1} }

(***************************************************************************)
(* apply_grid_diffusion                                                    *)
(***************************************************************************)
\* mutant: the solved field is returned without clipping
grid_return_noclip(var_next) == var_next

\* the array returned on success
grid_return(var_next) == ClipAtZero(var_next)

\* mutant: a failure status is ignored
grid_raises_never(inf) == FALSE

\* the status checks that raise
grid_raises(inf) == inf > 0 \/ inf < 0

\* mutant: `a` is built with the sign of `b`
grid_matrix_a_plus(lap, c, len) == EyePlus(lap, c, 1, len)

grid_matrix_a(lap, c, len) == EyePlus(lap, c, -1, len)

grid_matrix_b(lap, c, len) == EyePlus(lap, c, 1, len)

ApplyGridDiffusion ==
    /\ built # "none"
    /\ ticks < MaxTicks
    /\ LET len == NumCells(shape)
           a == grid_matrix_a(laplacian, halfDdt, len)
           b == grid_matrix_b(laplacian, halfDdt, len)
       IN /\ grid_a' = a
          /\ grid_b' = b
          /\ \E out \in cg(a, MatVec(b, variable, len), len) :
                /\ result' = out[1]
                /\ info' = out[2]
                /\ IF grid_raises(out[2])
                   THEN raised' = TRUE /\ variable' = variable
                   ELSE raised' = FALSE /\ variable' = grid_return(out[1])
    /\ call' = "grid"
    /\ before' = variable
    /\ ticks' = ticks + 1
    /\ UNCHANGED <<moduleVars, lapVars, halfDdt, cn_a, cn_b, chemoVars, utilVars>>

(***************************************************************************)
(* assemble_mesh_laplacian_crank_nicholson                                 *)
(***************************************************************************)
assemble_a(lap, c, len) == EyePlus(lap, c, 1, len)

assemble_b(lap, c, len) == EyePlus(lap, c, -1, len)

AssembleMeshLaplacianCrankNicholson ==
    /\ built # "none"
    /\ cn_a = << >>
    /\ cn_a' = assemble_a(laplacian, halfDdt, NumCells(shape))
    /\ cn_b' = assemble_b(laplacian, halfDdt, NumCells(shape))
    /\ UNCHANGED <<moduleVars, lapVars, variable, halfDdt, grid_a, grid_b, info, result, call, raised,
                   before, ticks, chemoVars, utilVars>>

(***************************************************************************)
(* apply_mesh_diffusion_crank_nicholson                                    *)
(***************************************************************************)
\* mutant: the clipping branch is never taken
mesh_clip_never(res) == res

\* the result after the clipping branch
mesh_clip(res) == IF HasNegative(res) THEN ClipAtZero(res) ELSE res

\* mutant: a breakdown status raises
mesh_raises_on_error(inf) == inf < 0

\* no status raises: each one is only logged
mesh_raises(inf) == FALSE

ApplyMeshDiffusionCrankNicholson ==
    /\ cn_a # << >>
    /\ ticks < MaxTicks
    /\ LET len == NumCells(shape)
       IN \E out \in cg(cn_a, MatVec(cn_b, variable, len), len) :
             /\ result' = out[1]
             /\ info' = out[2]
             /\ IF mesh_raises(out[2])
                THEN raised' = TRUE /\ variable' = variable
                ELSE raised' = FALSE /\ variable' = mesh_clip(out[1])
    /\ call' = "mesh"
    /\ before' = variable
    /\ ticks' = ticks + 1
    /\ UNCHANGED <<moduleVars, lapVars, halfDdt, grid_a, grid_b, cn_a, cn_b, chemoVars, utilVars>>

(***************************************************************************)
(* Agents on the rectangular grid                                          *)
(*                                                                         *)
(* A continuous coordinate c is the integer c * PointScale.  The grid has  *)
(* its first vertex at 0; voxel k of an axis lies between the vertices     *)
(* xv[k] and xv[k+1] and has its centre x[k] half-way between them.        *)
(***************************************************************************)
PointScale == 2 * 2

\* TissueTypes
AIR == 0
BLOOD == 1
OTHER_TISSUE == 2
EPITHELIUM == 3
SURFACTANT == 4
PORE == 5

\* Status
RESTING == 0
ACTIVE == 1
APOPTOTIC == 5
NECROTIC == 6
DEAD == 7
LEFT == 8

\* the members of PhagocyteStatus that TGFB.advance names and Status does not
\* have; they are distinct from every member of Status
INACTIVE == 9
INACTIVATING == 10

\* the random generators: Python's `random` module, numpy's global
\* `np.random`, and the generator object `nlisim.random.rg`
NoDraws == [random |-> 0, np_random |-> 0, rg |-> 0]

RECURSIVE xv(_, _, _)
\* grid.xv[k], grid.yv[k], grid.zv[k]: the k-th vertex coordinate of the axis
xv(dl, ax, k) == IF k = 0 THEN 0 ELSE xv(dl, ax, k - 1) + PointScale * dl[ax][k - 1]

\* grid.xv[-1]
xv_last(sh, dl, ax) == xv(dl, ax, sh[ax])

\* grid.x[k], grid.y[k], grid.z[k]: the centre coordinate of voxel k; a negative
\* k indexes from the end of the array
grid_x(sh, dl, ax, k) ==
    LET kk == IF k < 0 THEN k + sh[ax] ELSE k
    IN xv(dl, ax, kk) + (PointScale * dl[ax][kk]) \div 2

\* the voxel coordinate of c along the axis: argmax(xv >= c) - 1, and the
\* extent when c lies beyond the last vertex
axis_voxel(sh, dl, ax, c) ==
    IF c > xv_last(sh, dl, ax) THEN sh[ax]
    ELSE (CHOOSE k \in 0 .. sh[ax] :
              /\ xv(dl, ax, k) >= c
              /\ \A j \in 0 .. (k - 1) : xv(dl, ax, j) < c) - 1

\* grid.get_voxel(point)
get_voxel(sh, dl, point) ==
    [x |-> axis_voxel(sh, dl, 3, point.x),
     y |-> axis_voxel(sh, dl, 2, point.y),
     z |-> axis_voxel(sh, dl, 1, point.z)]

\* CellList.alive(): the indices of the agents that are not dead
alive(cs) == { a \in 1 .. Len(cs) : cs[a].status # DEAD }

RECURSIVE alive_from(_, _)
alive_from(cs, a) ==
    IF a > Len(cs) THEN << >>
    ELSE (IF cs[a].status # DEAD THEN <<a>> ELSE << >>) \o alive_from(cs, a + 1)

\* the order in which `for index in cells.alive()` visits the agents
alive_seq(cs) == alive_from(cs, 1)

\* cells.point_mask(points, grid): the point lies inside the grid
point_mask(sh, dl, point) ==
    /\ xv(dl, 3, 0) <= point.x /\ point.x <= xv_last(sh, dl, 3)
    /\ xv(dl, 2, 0) <= point.y /\ point.y <= xv_last(sh, dl, 2)
    /\ xv(dl, 1, 0) <= point.z /\ point.z <= xv_last(sh, dl, 1)

\* is_moveable(grid): the living agents that are RESTING and inside the grid
is_moveable(sh, dl, cs) ==
    { a \in alive(cs) : cs[a].status = RESTING /\ point_mask(sh, dl, cs[a].point) }

\* CellList.update_voxel_index([index]) on the cell record
update_voxel_index(sh, dl, cell) == [cell EXCEPT !.voxel = get_voxel(sh, dl, cell.point)]

(***************************************************************************)
(* logistic(x, l, b) = 1 - b * exp(-((x / l) ** 2))                        *)
(*                                                                         *)
(* The field takes the values x = l * sqrt(k * ln 2) for the levels        *)
(* k = 0 .. MaxLevel, where exp(-((x / l) ** 2)) = 1 / 2^k exactly; the    *)
(* bias b and the result are in units of 1 / LogisticScale.                *)
(***************************************************************************)
RECURSIVE Pow2(_)
Pow2(k) == IF k = 0 THEN 1 ELSE 2 * Pow2(k - 1)

LogisticScale == Pow2(MaxLevel + 1)

logistic(level, b) == LogisticScale - (b \div Pow2(level))

(***************************************************************************)
(* The candidate loop and the selection loop shared by both chemotaxis     *)
(* functions                                                               *)
(***************************************************************************)
\* the order of `for x in [0, 1, -1]`
Offs == <<0, 1, -1>>

NumCandidates == Len(Offs) * Len(Offs) * Len(Offs)

Candidates == 1 .. NumCandidates

\* the loop values of x, y and z in iteration k = 1 .. 27 of the nested loops
loop_x(k) == Offs[((k - 1) \div 9) + 1]
loop_y(k) == Offs[(((k - 1) \div 3) % 3) + 1]
loop_z(k) == Offs[((k - 1) % 3) + 1]

RECURSIVE cum_p(_, _)
\* p[1] + ... + p[k]
cum_p(p, k) == IF k = 0 THEN 0 ELSE p[k] + cum_p(p, k - 1)

RECURSIVE first_hit_strict(_, _, _, _)
first_hit_strict(p, scaled_prob, k, cum) ==
    IF k > NumCandidates THEN 0
    ELSE IF scaled_prob < DrawDen * (cum + p[k]) THEN k
    ELSE first_hit_strict(p, scaled_prob, k + 1, cum + p[k])

\* mutant: the comparison is strict
choose_index_strict(p, prob) ==
    LET p_tot == cum_p(p, NumCandidates)
    IN first_hit_strict(p, prob * (IF p_tot # 0 THEN p_tot ELSE 1), 1, 0)

RECURSIVE first_hit(_, _, _, _)
\* the loop `cum_p += p[i]; if prob <= cum_p: ...; break` from candidate k on,
\* with both sides of the comparison multiplied by DrawDen * p_tot
first_hit(p, scaled_prob, k, cum) ==
    IF k > NumCandidates THEN 0
    ELSE IF scaled_prob <= DrawDen * (cum + p[k]) THEN k
    ELSE first_hit(p, scaled_prob, k + 1, cum + p[k])

\* the normalisation by p_tot (skipped when p_tot is zero) and the selection
\* loop: the first index whose cumulative normalised weight is at least
\* prob / DrawDen, 0 when the loop ends without a hit
choose_index(p, prob) ==
    LET p_tot == cum_p(p, NumCandidates)
    IN first_hit(p, prob * (IF p_tot # 0 THEN p_tot ELSE 1), 1, 0)

\* the record kept for an agent that no pass has processed
NoMove == [run |-> FALSE]

(***************************************************************************)
(* PhagocyteCellList.chemotaxis                                            *)
(***************************************************************************)
phagocyte_vox_list(k) == <<loop_x(k), loop_y(k), loop_z(k)>>

PhagocyteTissues == {SURFACTANT, BLOOD, EPITHELIUM, PORE}

phagocyte_p(sh, ts, mol, b, vox, k) ==
    LET c == [x |-> vox.x + loop_x(k), y |-> vox.y + loop_y(k), z |-> vox.z + loop_z(k)]
    IN IF is_valid_voxel(sh, c)
       THEN IF ts[get_flattened_index(sh, c)] \in PhagocyteTissues
            THEN logistic(mol[get_flattened_index(sh, c)], b)
            ELSE 0
       ELSE 0

\* the locals of the candidate loop for one agent
phagocyte_weights(sh, ts, mol, b, vox) ==
    [vox |-> vox,
     p |-> [k \in Candidates |-> phagocyte_p(sh, ts, mol, b, vox, k)],
     vox_list |-> [k \in Candidates |-> phagocyte_vox_list(k)]]

\* the locals of the loop body for one agent, after the selection loop
phagocyte_locals(w, prob) ==
    [run |-> TRUE, vox |-> w.vox, prob |-> prob, p |-> w.p, vox_list |-> w.vox_list,
     sel |-> choose_index(w.p, prob), error |-> FALSE]

\* mutant: the position is written and the voxel index is not refreshed
phagocyte_cell_stale(sh, dl, cell, loc) ==
    IF loc.sel = 0 THEN cell
    ELSE [cell EXCEPT !.point = [x |-> grid_x(sh, dl, 3, loc.vox.x + loc.vox_list[loc.sel][1]),
                                 y |-> grid_x(sh, dl, 2, loc.vox.y + loc.vox_list[loc.sel][2]),
                                 z |-> grid_x(sh, dl, 1, loc.vox.z + loc.vox_list[loc.sel][3])]]

\* the agent after its iteration
phagocyte_cell(sh, dl, cell, loc) ==
    IF loc.sel = 0 THEN cell
    ELSE update_voxel_index(sh, dl,
            [cell EXCEPT !.point = [x |-> grid_x(sh, dl, 3, loc.vox.x + loc.vox_list[loc.sel][1]),
                                    y |-> grid_x(sh, dl, 2, loc.vox.y + loc.vox_list[loc.sel][2]),
                                    z |-> grid_x(sh, dl, 1, loc.vox.z + loc.vox_list[loc.sel][3])]])

\* one draw per living agent, in the order of the loop
PhagocyteChemotaxis ==
    /\ chemo # "none"
    /\ passes < MaxPasses
    /\ \E vox \in { [a \in alive(cells) |-> get_voxel(shape, delta, cells[a].point)] } :
       \E w \in { [a \in alive(cells) |->
                     phagocyte_weights(shape, tissue, molecule, drift_bias, vox[a])] } :
       \E prob \in [alive(cells) -> 0 .. (DrawDen - 1)] :
       \E loc \in { [a \in 1 .. Len(cells) |->
                       IF a \in alive(cells) THEN phagocyte_locals(w[a], prob[a])
                       ELSE NoMove] } :
          /\ moves' = loc
          /\ cells' = [a \in 1 .. Len(cells) |->
                          IF loc[a].run THEN phagocyte_cell(shape, delta, cells[a], loc[a])
                          ELSE cells[a]]
          /\ draws' = [i \in 1 .. Len(alive_seq(cells)) |-> prob[alive_seq(cells)[i]]]
    /\ generators' = [generators EXCEPT !.random = @ + Len(alive_seq(cells))]
    /\ pre_cells' = cells
    /\ chemo' = "phagocyte"
    /\ crashed' = FALSE
    /\ passes' = passes + 1
    /\ UNCHANGED <<moduleVars, lapVars, diffVars, utilVars, tissue, molecule, drift_bias, tgfb_grid>>

(***************************************************************************)
(* macrophage.chemotaxis                                                   *)
(***************************************************************************)
\* the element appended to vox_list in iteration k: the loop variables x and y
\* still hold the voxel coordinates assigned to them by the earlier iterations
\* of the inner loops (`y = vox.y + y`, `x = vox.x + x`)
macrophage_vox_list(vox, k) ==
    <<loop_x(k) + ((k - 1) % 9) * vox.x, loop_y(k) + ((k - 1) % 3) * vox.y, loop_z(k)>>

\* the voxel coordinates x, y, z after the three assignments of iteration k
macrophage_candidate(vox, k) ==
    [x |-> vox.x + (loop_x(k) + ((k - 1) % 9) * vox.x),
     y |-> vox.y + (loop_y(k) + ((k - 1) % 3) * vox.y),
     z |-> vox.z + loop_z(k)]

\* the bounds test compares the voxel coordinates with the vertex coordinates
macrophage_in_bounds(sh, dl, c) ==
    /\ xv(dl, 3, 0) <= c.x * PointScale /\ c.x * PointScale <= xv_last(sh, dl, 3)
    /\ xv(dl, 2, 0) <= c.y * PointScale /\ c.y * PointScale <= xv_last(sh, dl, 2)
    /\ xv(dl, 1, 0) <= c.z * PointScale /\ c.z * PointScale <= xv_last(sh, dl, 1)

\* `[SURFACTANT.value or BLOOD.value or EPITHELIUM.value or PORE.value]`
\* is the one-element list of the first non-zero value
MacrophageTissues ==
    { IF SURFACTANT # 0 THEN SURFACTANT
      ELSE IF BLOOD # 0 THEN BLOOD
      ELSE IF EPITHELIUM # 0 THEN EPITHELIUM ELSE PORE }

\* tissue[z, y, x] raises IndexError for an index beyond the array
macrophage_index_error(sh, dl, vox) ==
    \E k \in Candidates :
        /\ macrophage_in_bounds(sh, dl, macrophage_candidate(vox, k))
        /\ ~is_valid_voxel(sh, macrophage_candidate(vox, k))

macrophage_p(sh, dl, ts, mol, b, vox, k) ==
    LET c == macrophage_candidate(vox, k)
    IN IF macrophage_in_bounds(sh, dl, c) /\ is_valid_voxel(sh, c)
       THEN IF ts[get_flattened_index(sh, c)] \in MacrophageTissues
            THEN logistic(mol[get_flattened_index(sh, c)], b)
            ELSE 0
       ELSE 0

\* the locals of the candidate loop for one agent
macrophage_weights(sh, dl, ts, mol, b, vox) ==
    [vox |-> vox,
     p |-> [k \in Candidates |-> macrophage_p(sh, dl, ts, mol, b, vox, k)],
     vox_list |-> [k \in Candidates |-> macrophage_vox_list(vox, k)],
     error |-> macrophage_index_error(sh, dl, vox)]

\* the locals of the loop body for one agent, after the selection loop
macrophage_locals(w, prob) ==
    [run |-> TRUE, vox |-> w.vox, prob |-> prob, p |-> w.p, vox_list |-> w.vox_list,
     sel |-> IF w.error THEN 0 ELSE choose_index(w.p, prob), error |-> w.error]

\* cell['point'] = cell['point'] + Point(vox_list[i]); update_voxel_index
macrophage_cell(sh, dl, cell, loc) ==
    IF loc.sel = 0 THEN cell
    ELSE update_voxel_index(sh, dl,
            [cell EXCEPT !.point = [x |-> cell.point.x + PointScale * loc.vox_list[loc.sel][1],
                                    y |-> cell.point.y + PointScale * loc.vox_list[loc.sel][2],
                                    z |-> cell.point.z + PointScale * loc.vox_list[loc.sel][3]]])

\* the body of chemotaxis(molecule, prob, ...) on the population cs: the one
\* value `prob` is used for every agent; an IndexError ends the pass at the
\* agent that raised it
macrophage_chemotaxis(cs, mol, prob) ==
    \E vox \in { [a \in alive(cs) |-> get_voxel(shape, delta, cs[a].point)] } :
    \E w \in { [a \in alive(cs) |->
                  macrophage_weights(shape, delta, tissue, mol, drift_bias, vox[a])] } :
    \E reached \in { { a \in alive(cs) : \A e \in alive(cs) : e < a => ~w[e].error } } :
    \E loc \in { [a \in 1 .. Len(cs) |->
                    IF a \in reached THEN macrophage_locals(w[a], prob) ELSE NoMove] } :
       /\ moves' = loc
       /\ cells' = [a \in 1 .. Len(cs) |->
                       IF loc[a].run THEN macrophage_cell(shape, delta, cs[a], loc[a])
                       ELSE cs[a]]
       /\ crashed' = \E a \in reached : w[a].error

\* a call of chemotaxis with a value `prob` supplied by the caller
MacrophageChemotaxis ==
    /\ chemo # "none"
    /\ passes < MaxPasses
    /\ \E prob \in 0 .. (DrawDen - 1) : macrophage_chemotaxis(cells, molecule, prob)
    /\ draws' = << >>
    /\ pre_cells' = cells
    /\ chemo' = "macrophage"
    /\ passes' = passes + 1
    /\ UNCHANGED <<moduleVars, lapVars, diffVars, utilVars, tissue, molecule, drift_bias, generators,
                   tgfb_grid>>

(***************************************************************************)
(* Amounts                                                                 *)
(*                                                                         *)
(* A rational number is a pair <<numerator, denominator>> with a positive  *)
(* denominator; the Q operators return it in lowest terms.                 *)
(***************************************************************************)
Zero == <<0, 1>>

\* the whole amount n
Q(n) == <<n, 1>>

Less(a, b) == a[1] * b[2] < b[1] * a[2]

Same(a, b) == a[1] * b[2] = b[1] * a[2]

QNorm(q) ==
    LET g == Gcd(Abs(q[1]), q[2])
    IN IF q[1] = 0 THEN Zero ELSE <<q[1] \div g, q[2] \div g>>

QAdd(a, b) == QNorm(<<a[1] * b[2] + b[1] * a[2], a[2] * b[2]>>)

QSub(a, b) == QNorm(<<a[1] * b[2] - b[1] * a[2], a[2] * b[2]>>)

QMul(a, b) == QNorm(<<a[1] * b[1], a[2] * b[2]>>)

\* a / b for b > 0
QDiv(a, b) == QNorm(<<a[1] * b[2], a[2] * b[1]>>)

QMin(a, b) == IF Less(b, a) THEN b ELSE a

(***************************************************************************)
(* Macrophage.advance: interact, then chemotaxis                           *)
(*                                                                         *)
(* interact works on amounts.  In advance MPH_UPTAKE_QTTY is 0 or 1 and    *)
(* every iron pool starts at 0, so that the amounts interact moves are     *)
(* whole voxel amounts and every sum has a zero term: there the level of   *)
(* the field stands for its amount.                                        *)
(***************************************************************************)
Uptakes == {Zero, Q(1)}

\* TF_ENHANCE
Enhance == 1

\* `hill_probability(iron_amount) > random.random()`: false when the amount
\* is zero, and otherwise decided by the draw
hill_probability_exceeds(iron_amount, below) == iron_amount[1] # 0 /\ below

\* mutant: the released quantity is added to the field and stays in the pool
interact_cell_kept(st, index, uptake, below) ==
    LET cell == st.cells[index]
        vox == get_flattened_index(shape, get_voxel(shape, delta, cell.point))
        iron_amount == st.iron[vox]
        taken == hill_probability_exceeds(iron_amount, below)
        qtty == IF taken THEN QMul(uptake, iron_amount) ELSE Zero
        iron1 == QSub(st.iron[vox], qtty)
        pool1 == QAdd(cell.iron_pool, qtty)
        out == QMul(pool1, IF Less(Q(1), uptake) THEN Q(1) ELSE uptake)
    IN [iron |-> [st.iron EXCEPT ![vox] = QAdd(iron1, out)],
        cells |-> [st.cells EXCEPT ![index] = [cell EXCEPT !.iron_pool = pool1]]]

\* the body of the loop of interact for the agent `index`
interact_cell(st, index, uptake, below) ==
    LET cell == st.cells[index]
        vox == get_flattened_index(shape, get_voxel(shape, delta, cell.point))
        iron_amount == st.iron[vox]
        taken == hill_probability_exceeds(iron_amount, below)
        qtty == IF taken THEN QMul(uptake, iron_amount) ELSE Zero
        iron1 == QSub(st.iron[vox], qtty)
        pool1 == QAdd(cell.iron_pool, qtty)
        fpn == TRUE
        tf == FALSE
        enhancer == IF tf THEN Q(Enhance) ELSE Q(1)
        out == IF fpn
               THEN QMul(pool1, IF Less(Q(1), QMul(uptake, enhancer))
                                THEN Q(1) ELSE QMul(uptake, enhancer))
               ELSE Zero
    IN [iron |-> [st.iron EXCEPT ![vox] = QAdd(iron1, out)],
        cells |-> [st.cells EXCEPT ![index] = [cell EXCEPT !.iron_pool = QSub(pool1, out)]]]

RECURSIVE interact_from(_, _, _, _, _)
interact_from(st, order, k, uptake, below) ==
    IF k > Len(order) THEN st
    ELSE interact_from(interact_cell(st, order[k], uptake, below[order[k]]),
                       order, k + 1, uptake, below)

\* interact(state): one uniform value per living agent
interact(iron, cs, uptake, below) ==
    interact_from([iron |-> iron, cells |-> cs], alive_seq(cs), 1, uptake, below)

\* interact draws once per living agent, then advance draws one value and
\* passes it to chemotaxis
MacrophageAdvance ==
    /\ chemo # "none"
    /\ passes < MaxPasses
    /\ \E st \in { interact([i \in DOMAIN molecule |-> Q(molecule[i])], cells, uptake, below) :
                       uptake \in Uptakes, below \in [alive(cells) -> BOOLEAN] } :
       \E iron \in { [i \in DOMAIN molecule |-> st.iron[i][1]] } :
       \E prob \in 0 .. (DrawDen - 1) :
          /\ macrophage_chemotaxis(st.cells, iron, prob)
          /\ molecule' = iron
          /\ draws' = <<prob>>
    /\ generators' = [generators EXCEPT !.random = @ + Len(alive_seq(cells)) + 1]
    /\ pre_cells' = cells
    /\ chemo' = "advance"
    /\ passes' = passes + 1
    /\ UNCHANGED <<moduleVars, lapVars, diffVars, utilVars, tissue, drift_bias, tgfb_grid>>

\* interact(state) on its own, on an iron field of amounts: one uniform value
\* per living agent
MacrophageInteract ==
    /\ module_call = "none"
    /\ config.module = "macrophage"
    /\ \E below \in [alive(cells) -> BOOLEAN] :
       \E st \in { interact(iron_grid, cells, config.MPH_UPTAKE_QTTY, below) } :
          /\ iron_grid' = st.iron
          /\ cells' = st.cells
          /\ locals' = [before |-> iron_grid, below |-> below]
    /\ generators' = [generators EXCEPT !.random = @ + Len(alive_seq(cells))]
    /\ pre_cells' = cells
    /\ module_call' = "interact"
    /\ module_raised' = "none"
    /\ UNCHANGED <<lapVars, diffVars, utilVars, tissue, molecule, drift_bias, moves, chemo,
                   crashed, passes, draws, tgfb_grid, tafc, transferrin, afumigatus,
                   erythrocyte, hemoglobin, hemolysin, config>>

(***************************************************************************)
(* Macrophage.initialize                                                   *)
(***************************************************************************)
RECURSIVE argwhere_from(_, _, _, _)
argwhere_from(ts, sh, t, i) ==
    IF i >= NumCells(sh) THEN << >>
    ELSE (IF ts[i] = t THEN <<i>> ELSE << >>) \o argwhere_from(ts, sh, t, i + 1)

\* np.argwhere(tissue == t): the matching voxels in row-major order
argwhere(ts, sh, t) == argwhere_from(ts, sh, t, 0)

Reversed(q) == [i \in 1 .. Len(q) |-> q[Len(q) + 1 - i]]

Rotated(q) == IF q = << >> THEN q ELSE Tail(q) \o <<Head(q)>>

\* the orders np.random.shuffle(indices) leaves the rows in: the enumerated
\* permutations are the identity, the reversal and the rotation by one
ShuffleOutcomes(q) == {q, Reversed(q), Rotated(q)}

\* the values random.uniform(0, 1) returns: 0.25 and 0.5
UniformOffsets == {PointScale \div 4, PointScale \div 2}

\* MacrophageCellData.create_cell(point=Point(x, y, z), status=RESTING) with
\* x = indices[i][2] + u[1], y = indices[i][1] + u[2], z = indices[i][0] + u[3],
\* as cells.append stores it
initial_cell(sh, dl, v, u) ==
    update_voxel_index(sh, dl,
        [point |-> [x |-> PointScale * v.x + u[1],
                    y |-> PointScale * v.y + u[2],
                    z |-> PointScale * v.z + u[3]],
         voxel |-> v, status |-> RESTING, iron_pool |-> Zero])

\* a new population of init_num agents in SURFACTANT voxels, made once on the
\* empty population the state is constructed with; indices[i] raises
\* IndexError when fewer than init_num voxels are SURFACTANT
MacrophageInitialize ==
    /\ chemo = "idle"
    /\ cells = << >>
    /\ \E init_num \in 0 .. MaxInitNum :
       \E indices \in (IF init_num > 0 THEN ShuffleOutcomes(argwhere(tissue, shape, SURFACTANT))
                       ELSE { << >> }) :
       \E made \in { IF init_num < Len(indices) THEN init_num ELSE Len(indices) } :
       \E u \in [1 .. made -> [1 .. 3 -> UniformOffsets]] :
          /\ cells' = [i \in 1 .. made |->
                          initial_cell(shape, delta, get_voxel_of_index(shape, indices[i]), u[i])]
          /\ pre_cells' = cells'
          /\ moves' = [a \in 1 .. made |-> NoMove]
          /\ crashed' = (made < init_num)
          /\ generators' = [generators EXCEPT
                               !.np_random = @ + (IF init_num > 0 THEN 1 ELSE 0),
                               !.random = @ + 3 * made]
    /\ chemo' = "initialize"
    /\ draws' = << >>
    /\ UNCHANGED <<moduleVars, lapVars, diffVars, utilVars, tissue, molecule, drift_bias, passes, tgfb_grid>>

(***************************************************************************)
(* TGFB.advance                                                            *)
(*                                                                         *)
(* An entry [n, deg] of tgfb.grid stands for n secretions of               *)
(* macrophage_secretion_rate_unit_t followed by deg multiplications by     *)
(* half_life_multiplier.                                                   *)
(***************************************************************************)
\* mutant: the call passes the parameter under the name the function has
tgfb_activation_call_k_d(above) == IF above THEN "greater" ELSE "not greater"

\* `activation_function(x=..., kd=..., h=..., volume=...) > rg()`:
\* activation_function has the keyword-only parameter k_d and none named kd,
\* so the call raises TypeError before rg() is evaluated
tgfb_activation_call(above) == "TypeError"

\* `turnover_rate(x_mol=..., x_system_mol=..., ...)`: the parameters of
\* turnover_rate are x and x_system
tgfb_turnover_call == "TypeError"

\* the body of the loop for the macrophage `index`
tgfb_cell(st, index, above) ==
    LET cell == st.cells[index]
        vox == get_flattened_index(shape, get_voxel(shape, delta, cell.point))
        r == tgfb_activation_call(above)
    IN IF cell.status = INACTIVE
       THEN LET g == [st.grid EXCEPT ![vox].n = @ + 1]
            IN IF r = "TypeError" THEN [st EXCEPT !.grid = g, !.raised = TRUE]
               ELSE [st EXCEPT !.grid = g, !.rg = @ + 1]
       ELSE IF cell.status \notin {APOPTOTIC, NECROTIC, DEAD}
       THEN IF r = "TypeError" THEN [st EXCEPT !.raised = TRUE]
            ELSE IF r = "greater"
                 THEN [st EXCEPT !.cells[index].status = INACTIVATING, !.rg = @ + 1]
                 ELSE [st EXCEPT !.rg = @ + 1]
       ELSE st

RECURSIVE tgfb_from(_, _, _, _)
tgfb_from(st, order, k, above) ==
    IF k > Len(order) \/ st.raised THEN st
    ELSE tgfb_from(tgfb_cell(st, order[k], above[order[k]]), order, k + 1, above)

\* `tgfb.grid *= tgfb.half_life_multiplier`, then the turnover factor
tgfb_degrade(st) ==
    LET g == [i \in DOMAIN st.grid |-> [st.grid[i] EXCEPT !.deg = @ + 1]]
    IN IF tgfb_turnover_call = "TypeError" THEN [st EXCEPT !.grid = g, !.raised = TRUE]
       ELSE [st EXCEPT !.grid = [i \in DOMAIN g |-> [g[i] EXCEPT !.deg = @ + 1]]]

tgfb_advance(cs, grid, above) ==
    LET st == tgfb_from([cells |-> cs, grid |-> grid, rg |-> 0, raised |-> FALSE],
                        alive_seq(cs), 1, above)
    IN IF st.raised THEN st ELSE tgfb_degrade(st)

TGFBAdvance ==
    /\ chemo # "none"
    /\ passes < MaxPasses
    /\ \E above \in [alive(cells) -> BOOLEAN] :
       \E st \in { tgfb_advance(cells, tgfb_grid, above) } :
          /\ cells' = st.cells
          /\ tgfb_grid' = st.grid
          /\ crashed' = st.raised
          /\ generators' = [generators EXCEPT !.rg = @ + st.rg]
    /\ pre_cells' = cells
    /\ moves' = [a \in 1 .. Len(cells) |-> NoMove]
    /\ draws' = << >>
    /\ chemo' = "tgfb"
    /\ passes' = passes + 1
    /\ UNCHANGED <<moduleVars, lapVars, diffVars, utilVars, tissue, molecule, drift_bias>>

(***************************************************************************)
(* nlisim.util: choose_voxel_by_prob                                       *)
(*                                                                         *)
(* What a call produces is a record with the field kind: "value" (with    *)
(* the field val), "nan", or the name of the exception.                    *)
(***************************************************************************)
RECURSIVE np_sum(_, _)
\* weights[1] + ... + weights[k]
np_sum(weights, k) == IF k = 0 THEN 0 ELSE weights[k] + np_sum(weights, k - 1)

RECURSIVE argmax_exceeds_nonstrict(_, _, _, _)
argmax_exceeds_nonstrict(weights, normalization_constant, u, j) ==
    IF j > Len(weights) THEN 0
    ELSE IF DrawDen * np_sum(weights, j) >= u * normalization_constant THEN j
    ELSE argmax_exceeds_nonstrict(weights, normalization_constant, u, j + 1)

RECURSIVE argmax_exceeds(_, _, _, _)
\* np.argmax(np.cumsum(normalized_weights) - u / DrawDen > 0.0) from position j
\* on: position 0 is the prepended zero, which is never greater than the
\* draw; the result is 0 when no position is
argmax_exceeds(weights, normalization_constant, u, j) ==
    IF j > Len(weights) THEN 0
    ELSE IF DrawDen * np_sum(weights, j) > u * normalization_constant THEN j
    ELSE argmax_exceeds(weights, normalization_constant, u, j + 1)

\* mutant: the cumulative weight has to reach the draw, not to exceed it
random_voxel_idx_nonstrict(weights, u) ==
    argmax_exceeds_nonstrict(weights, np_sum(weights, Len(weights)), u, 1) - 1

\* random_voxel_idx for the draw rg.uniform() = u / DrawDen
random_voxel_idx(weights, u) ==
    argmax_exceeds(weights, np_sum(weights, Len(weights)), u, 1) - 1

\* choose_voxel_by_prob(voxels, default_value, weights); idx is the value of
\* random_voxel_idx, -1 when the default is returned
choose_voxel_by_prob(voxels, default_value, weights, u) ==
    IF np_sum(weights, Len(weights)) <= 0
    THEN [kind |-> "value", val |-> default_value, idx |-> -1, drawn |-> 0]
    ELSE IF random_voxel_idx(weights, u) < 0
    THEN [kind |-> "value", val |-> default_value, idx |-> -1, drawn |-> 1]
    ELSE [kind |-> "value", val |-> voxels[random_voxel_idx(weights, u) + 1],
          idx |-> random_voxel_idx(weights, u), drawn |-> 1]

\* the voxels offered: voxel i of a row along x
RowVoxel(i) == [x |-> i, y |-> 0, z |-> 0]

ChooseVoxelByProb ==
    /\ util_call = "none"
    /\ \E n \in 1 .. MaxVoxels :
       \E weights \in [1 .. n -> 0 .. MaxWeight] :
       \E default_value \in { RowVoxel(0), RowVoxel(1) } :
       \E u \in 0 .. (DrawDen - 1) :
       \E voxels \in { [i \in 1 .. n |-> RowVoxel(i)] } :
       \E out \in { choose_voxel_by_prob(voxels, default_value, weights, u) } :
          /\ util_args' = [voxels |-> voxels, default_value |-> default_value,
                           weights |-> weights, u |-> u]
          /\ util_out' = out
          /\ generators' = [generators EXCEPT !.rg = @ + out.drawn]
    /\ util_call' = "choose_voxel_by_prob"
    /\ UNCHANGED <<moduleVars, lapVars, diffVars, tissue, molecule, drift_bias, cells, pre_cells, moves,
                   chemo, crashed, passes, draws, tgfb_grid>>

(***************************************************************************)
(* nlisim.util: turnover_rate                                              *)
(*                                                                         *)
(* base_turnover_rate * rel_cyt_bind_unit_t is k * ln 2 for an integer k,  *)
(* so that np.exp(-base_turnover_rate * rel_cyt_bind_unit_t) = 2^(-k).     *)
(***************************************************************************)
np_exp_neg(k) == IF k >= 0 THEN <<1, Pow2(k)>> ELSE <<Pow2(-k), 1>>

\* np.clip(result, 0.0, 1.0)
np_clip_unit(q) == IF q[1] < 0 THEN Zero ELSE IF q[1] > q[2] THEN <<1, 1>> ELSE q

\* turnover_rate(x=x, x_system=x_system, ...) for an array x
turnover_rate(x, x_system, k) ==
    IF x_system = 0
    THEN [i \in DOMAIN x |-> np_exp_neg(k)]
    ELSE [i \in DOMAIN x |->
            LET e == np_exp_neg(k)
                y == <<(x[i] - x_system) * e[1] + x_system * e[2], e[2]>>
            IN IF x[i] = 0 THEN Zero
               ELSE np_clip_unit(<<y[1], y[2] * x[i]>>)]

TurnoverRate ==
    /\ util_call = "none"
    /\ \E n \in 1 .. MaxEntries :
       \E x \in [1 .. n -> 0 .. MaxX] :
       \E x_system \in 0 .. MaxX :
       \E k \in (-1) .. MaxDecay :
          /\ util_args' = [x |-> x, x_system |-> x_system, k |-> k]
          /\ util_out' = [kind |-> "value", val |-> turnover_rate(x, x_system, k)]
    /\ util_call' = "turnover_rate"
    /\ UNCHANGED <<moduleVars, lapVars, diffVars, chemoVars>>

(***************************************************************************)
(* nlisim.util: michaelian_kinetics and activation_function                *)
(*                                                                         *)
(* np_seterr is the numpy error state for divide and invalid: "raise" as   *)
(* nlisim/cli.py sets it, or numpy's default "warn".                       *)
(***************************************************************************)
SetErrs == {"raise", "warn"}

\* numpy's a / b for a >= 0: a rational, or +inf for a / 0 with a > 0 (a
\* divide error), or nan for 0 / 0 (an invalid error)
np_divide(a, b, np_seterr) ==
    IF b[1] # 0 THEN [kind |-> "value", val |-> <<a[1] * b[2], a[2] * b[1]>>]
    ELSE IF np_seterr = "raise" THEN [kind |-> "FloatingPointError"]
    ELSE IF a[1] # 0 THEN [kind |-> "inf"]
    ELSE [kind |-> "nan"]

\* mutant: the half-saturation constant is not scaled by the volume
michaelian_kinetics_molar(substrate, enzyme, k_m, h, k_cat, volume, np_seterr) ==
    np_divide(<<h * k_cat * enzyme * substrate, 1>>, <<substrate + k_m + volume, 1>>,
              np_seterr)

\* h * k_cat * enzyme * substrate / (substrate + k_m * volume) at one entry
michaelian_kinetics(substrate, enzyme, k_m, h, k_cat, volume, np_seterr) ==
    np_divide(<<h * k_cat * enzyme * substrate, 1>>, <<substrate + k_m * volume, 1>>,
              np_seterr)

\* the amounts and constants the kinetics are called with; the scenario
\* substrate=10, enzyme=5, k_m=2, h=1, volume=1 is among them
Substrates == (0 .. MaxX) \cup {10}

Enzymes == (0 .. MaxX) \cup {5}

HalfSaturations == 0 .. MaxX

Volumes == 0 .. MaxX

StepLengths == 1 .. MaxX

MichaelianKinetics ==
    /\ util_call = "none"
    /\ \E substrate \in Substrates, enzyme \in Enzymes, k_m \in HalfSaturations,
          h \in StepLengths, k_cat \in StepLengths, volume \in Volumes,
          np_seterr \in SetErrs :
          /\ util_args' = [substrate |-> substrate, enzyme |-> enzyme, k_m |-> k_m, h |-> h,
                           k_cat |-> k_cat, volume |-> volume, np_seterr |-> np_seterr]
          /\ util_out' = michaelian_kinetics(substrate, enzyme, k_m, h, k_cat, volume,
                                             np_seterr)
    /\ util_call' = "michaelian_kinetics"
    /\ UNCHANGED <<moduleVars, lapVars, diffVars, chemoVars>>

\* np.exp(-x / k_d / volume) where x, k_d and volume stand for amounts whose
\* quotient x / (k_d * volume) is that many times ln 2: the two divisions are
\* made one after the other
np_exp_neg_quotient(x, k_d, volume, np_seterr) ==
    LET first == np_divide(<<x, 1>>, <<k_d, 1>>, np_seterr)
        second == IF first.kind = "value" THEN np_divide(first.val, <<volume, 1>>, np_seterr)
                  ELSE first
    IN IF second.kind = "value"
       THEN [kind |-> "value", val |-> np_exp_neg(second.val[1] \div second.val[2])]
       ELSE IF second.kind = "inf" THEN [kind |-> "value", val |-> Zero]
       ELSE second

\* mutant: the baseline term is added to 1 instead of subtracted from it
activation_function_added(x, k_d, h, volume, b, np_seterr) ==
    LET e == np_exp_neg_quotient(x, k_d, volume, np_seterr)
    IN IF e.kind = "value"
       THEN [kind |-> "value", val |-> <<h * (e.val[2] + b * e.val[1]), e.val[2]>>]
       ELSE e

\* activation_function(x=x, k_d=k_d, h=h, volume=volume, b=b) at one entry:
\* h * (1 - b * np.exp(-x / k_d / volume))
activation_function(x, k_d, h, volume, b, np_seterr) ==
    LET e == np_exp_neg_quotient(x, k_d, volume, np_seterr)
    IN IF e.kind = "value"
       THEN [kind |-> "value", val |-> <<h * (e.val[2] - b * e.val[1]), e.val[2]>>]
       ELSE e

Baselines == 0 .. MaxX

ActivationFunction ==
    /\ util_call = "none"
    /\ \E x \in 0 .. (2 * MaxLevel), k_d \in HalfSaturations, volume \in Volumes,
          h \in 0 .. MaxX, b \in Baselines, np_seterr \in SetErrs :
          \* x / (k_d * volume) is a whole multiple of ln 2
          /\ IF k_d * volume = 0 THEN TRUE ELSE x % (k_d * volume) = 0
          /\ util_args' = [x |-> x, k_d |-> k_d, h |-> h, volume |-> volume, b |-> b,
                           np_seterr |-> np_seterr]
          /\ util_out' = activation_function(x, k_d, h, volume, b, np_seterr)
    /\ util_call' = "activation_function"
    /\ UNCHANGED <<moduleVars, lapVars, diffVars, chemoVars>>

(***************************************************************************)
(* nlisim.util: iron_tf_reaction                                           *)
(*                                                                         *)
(* EPSILON = 1e-50 is absorbed by every non-zero total_binding_site of the *)
(* amounts used here, and a zero total_binding_site is overwritten, so the *)
(* quotient is total_iron / total_binding_site.                            *)
(***************************************************************************)
\* iron as the array the function works on: the argument is a record with
\* the fields isscalar and value; a scalar becomes np.array([iron]) and is
\* broadcast against tf
iron_at(iron, i) == IF iron.isscalar THEN iron.value ELSE iron.value[i]

\* np.maximum(np.minimum(rel_total_iron, 1.0), 0.0)
rel_total_iron(total_iron, total_binding_site) ==
    IF total_binding_site = 0 THEN Zero
    ELSE np_clip_unit(<<total_iron, total_binding_site>>)

\* np.maximum(0.0, ((p1 * r + p2) * r + p3) * r) for r = <<a, b>>
rel_tf_fe(r, p) ==
    LET a == r[1]
        b == r[2]
        cubic == ((p[1] * a + p[2] * b) * a + p[3] * b * b) * a
    IN IF cubic < 0 THEN Zero ELSE <<cubic, b * b * b>>

\* iron_tf_reaction(iron=iron, tf=tf, tf_fe=tf_fe, p1=p[1], p2=p[2], p3=p[3])
iron_tf_reaction(iron, tf, tf_fe, p) ==
    [i \in DOMAIN tf |->
        LET total_binding_site == 2 * (tf[i] + tf_fe[i])
            total_iron == iron_at(iron, i) + tf_fe[i]
        IN IF total_binding_site = 0 THEN Zero
           ELSE IF total_iron = 0 THEN Zero
           ELSE rel_tf_fe(rel_total_iron(total_iron, total_binding_site), p)]

\* the coefficients <<p1, p2, p3>> of the calls: r itself, a cubic that is
\* negative beyond its root, and two that leave the unit interval
Polynomials == { <<0, 0, 1>>, <<-1, 0, 1>>, <<0, 0, 2>>, <<1, 1, 1>>, <<0, -1, 0>> }

IronTfReaction ==
    /\ util_call = "none"
    /\ \E n \in 1 .. MaxEntries :
       \E tf \in [1 .. n -> 0 .. 1], tf_fe \in [1 .. n -> 0 .. 1] :
       \E iron \in { [isscalar |-> TRUE, value |-> v] : v \in 0 .. MaxX }
                   \cup { [isscalar |-> FALSE, value |-> v] : v \in [1 .. n -> 0 .. MaxX] } :
       \E p \in Polynomials :
          /\ util_args' = [iron |-> iron, tf |-> tf, tf_fe |-> tf_fe, p |-> p]
          /\ util_out' = [kind |-> "value", val |-> iron_tf_reaction(iron, tf, tf_fe, p)]
    /\ util_call' = "iron_tf_reaction"
    /\ UNCHANGED <<moduleVars, lapVars, diffVars, chemoVars>>

(***************************************************************************)
(* nlisim.util: tetrahedral_gradient                                       *)
(*                                                                         *)
(* np.linalg.solve is LAPACK's gesv: an LU factorisation with partial      *)
(* pivoting in binary floating point, which reports a singular matrix only *)
(* when a pivot is exactly zero after rounding.  The rounding is modelled  *)
(* with a mantissa of MantissaBits bits: on the tetrahedra of TetraPoints  *)
(* this finds a zero pivot for exactly the matrices for which binary64     *)
(* arithmetic does.  A solution that is returned is given exactly: for a   *)
(* matrix with a non-zero determinant the solution itself, and kind        *)
(* "rounding_residue" for the vector obtained by dividing by a last pivot  *)
(* that is only the rounding residue of a zero one.                        *)
(***************************************************************************)
MantissaBits == 5

RECURSIVE fl_scale(_, _, _)
\* <<n, d, e>> with n / d scaled by 2^(-e) into [2^(MantissaBits-1), 2^MantissaBits)
fl_scale(n, d, e) ==
    IF n >= d * Pow2(MantissaBits) THEN fl_scale(n, 2 * d, e + 1)
    ELSE IF n < d * Pow2(MantissaBits - 1) THEN fl_scale(2 * n, d, e - 1)
    ELSE <<n, d, e>>

\* q rounded to the nearest number with a MantissaBits-bit mantissa, ties to
\* the even mantissa
fl(q) ==
    IF q[1] = 0 THEN Zero
    ELSE LET sc == fl_scale(Abs(q[1]), q[2], 0)
             m == sc[1] \div sc[2]
             r == sc[1] % sc[2]
             up == 2 * r > sc[2] \/ (2 * r = sc[2] /\ m % 2 = 1)
             mant == (IF q[1] < 0 THEN -1 ELSE 1) * (IF up THEN m + 1 ELSE m)
         IN IF sc[3] >= 0 THEN <<mant * Pow2(sc[3]), 1>>
            ELSE <<mant, Pow2(-sc[3])>>

fl_mul(a, b) == fl(<<a[1] * b[1], a[2] * b[2]>>)

fl_sub(a, b) == fl(<<a[1] * b[2] - b[1] * a[2], a[2] * b[2]>>)

\* |a| < |b|
AbsLess(a, b) == Abs(a[1]) * b[2] < Abs(b[1]) * a[2]

\* the pivot row of column k: the first row from k on with the largest
\* absolute value in that column
pivot_row(A, k) ==
    CHOOSE i \in k .. 3 :
        /\ \A j \in k .. 3 : ~AbsLess(A[i][k], A[j][k])
        /\ \A j \in k .. (i - 1) : AbsLess(A[j][k], A[i][k])

\* entry (i, j) of a row below the pivot row k: the multiplier in column k,
\* the updated entry to its right
eliminated_entry(swapped, reciprocal, k, i, j) ==
    IF j < k THEN swapped[i][j]
    ELSE IF j = k THEN fl_mul(swapped[i][k], reciprocal)
    ELSE fl_sub(swapped[i][j], fl_mul(fl_mul(swapped[i][k], reciprocal), swapped[k][j]))

eliminated_row(swapped, reciprocal, k, i) ==
    IF i <= k THEN swapped[i]
    ELSE << eliminated_entry(swapped, reciprocal, k, i, 1),
            eliminated_entry(swapped, reciprocal, k, i, 2),
            eliminated_entry(swapped, reciprocal, k, i, 3) >>

\* row i after the rows k and pv are exchanged
swapped_row(A, k, pv, i) == IF i = k THEN A[pv] ELSE IF i = pv THEN A[k] ELSE A[i]

\* one column of the factorisation: rows k and pv exchanged, the rows below
\* k scaled by the reciprocal of the pivot and the trailing block updated
eliminate(A, k, pv) ==
    LET swapped == << swapped_row(A, k, pv, 1), swapped_row(A, k, pv, 2),
                      swapped_row(A, k, pv, 3) >>
        reciprocal == fl(<<swapped[k][k][2] * (IF swapped[k][k][1] < 0 THEN -1 ELSE 1),
                           Abs(swapped[k][k][1])>>)
    IN << eliminated_row(swapped, reciprocal, k, 1),
          eliminated_row(swapped, reciprocal, k, 2),
          eliminated_row(swapped, reciprocal, k, 3) >>

RECURSIVE zero_pivot(_, _)
\* the factorisation from column k on meets a pivot that is exactly zero
zero_pivot(A, k) ==
    IF k > 3 THEN FALSE
    ELSE IF A[pivot_row(A, k)][k][1] = 0
         THEN TRUE
    ELSE IF k = 3 THEN FALSE
    ELSE zero_pivot(eliminate(A, k, pivot_row(A, k)), k + 1)

\* determinant of the 3x3 integer matrix with the rows r1, r2, r3
det3(r1, r2, r3) ==
      r1[1] * (r2[2] * r3[3] - r2[3] * r3[2])
    - r1[2] * (r2[1] * r3[3] - r2[3] * r3[1])
    + r1[3] * (r2[1] * r3[2] - r2[2] * r3[1])

\* the matrix M with column c replaced by the vector v
with_column(M, c, v) ==
    << << IF c = 1 THEN v[1] ELSE M[1][1], IF c = 2 THEN v[1] ELSE M[1][2],
          IF c = 3 THEN v[1] ELSE M[1][3] >>,
       << IF c = 1 THEN v[2] ELSE M[2][1], IF c = 2 THEN v[2] ELSE M[2][2],
          IF c = 3 THEN v[2] ELSE M[2][3] >>,
       << IF c = 1 THEN v[3] ELSE M[3][1], IF c = 2 THEN v[3] ELSE M[3][2],
          IF c = 3 THEN v[3] ELSE M[3][3] >> >>

det_with(M, c, v) ==
    det3(with_column(M, c, v)[1], with_column(M, c, v)[2], with_column(M, c, v)[3])

\* np.linalg.solve(a, b) for an integer matrix a and vector b
np_linalg_solve(a, b) ==
    IF zero_pivot(<< << <<a[1][1], 1>>, <<a[1][2], 1>>, <<a[1][3], 1>> >>,
                     << <<a[2][1], 1>>, <<a[2][2], 1>>, <<a[2][3], 1>> >>,
                     << <<a[3][1], 1>>, <<a[3][2], 1>>, <<a[3][3], 1>> >> >>, 1)
    THEN [kind |-> "LinAlgError"]
    ELSE IF det3(a[1], a[2], a[3]) = 0
    THEN [kind |-> "rounding_residue"]
    ELSE LET d == det3(a[1], a[2], a[3])
             sgn == IF d < 0 THEN -1 ELSE 1
         IN [kind |-> "value",
             val |-> << <<sgn * det_with(a, 1, b), sgn * d>>,
                        <<sgn * det_with(a, 2, b), sgn * d>>,
                        <<sgn * det_with(a, 3, b), sgn * d>> >>]

\* points[i, :] - base_point
edge_vector(point, base_point) ==
    <<point[1] - base_point[1], point[2] - base_point[2], point[3] - base_point[3]>>

\* tetrahedral_gradient(field=field, points=points)
tetrahedral_gradient(field, points) ==
    LET base_point == points[1]
        basis_vectors == << edge_vector(points[2], base_point),
                            edge_vector(points[3], base_point),
                            edge_vector(points[4], base_point) >>
    IN np_linalg_solve(basis_vectors,
                       <<field[2] - field[1], field[3] - field[1], field[4] - field[1]>>)

\* the points the tetrahedra are made of
TetraPoints == { <<0, 0, 0>>, <<1, 0, 0>>, <<0, 1, 0>>,
                 <<0, 1, 2>>, <<1, 2, 3>>, <<3, 2, 1>> }

TetrahedralGradient ==
    /\ util_call = "none"
    /\ \E points \in [1 .. 4 -> TetraPoints], field \in [1 .. 4 -> 0 .. 1] :
          /\ util_args' = [field |-> field, points |-> points]
          /\ util_out' = tetrahedral_gradient(field, points)
    /\ util_call' = "tetrahedral_gradient"
    /\ UNCHANGED <<moduleVars, lapVars, diffVars, chemoVars>>

(***************************************************************************)
(* uptake_in_element                                                       *)
(*                                                                         *)
(* The mesh is one tetrahedron: an element owns four point indices, and    *)
(* every point has a positive dual volume.  element_index is an int or an  *)
(* array of element indices; amount is a float.  Values are exact amounts  *)
(* n/d, and 0/0 is the NaN of the floating-point division.                 *)
(***************************************************************************)
\* mesh.element_point_indices
element_point_indices == << <<1, 2, 3, 4>> >>

MeshPoints == UNION { { element_point_indices[e][j] : j \in 1 .. 4 } :
                        e \in DOMAIN element_point_indices }

\* the dual volumes a point may have
DualVolumes == {1, 2}

NaN == <<0, 0>>

\* np.sum(point_field[points], axis=1)[i]
element_sum(point_field, points, i) ==
    QAdd(QAdd(point_field[points[i][1]], point_field[points[i][2]]),
         QAdd(point_field[points[i][3]], point_field[points[i][4]]))

\* (point_field[points] / np.sum(point_field[points], axis=1))[i][j]: the
\* array of sums has one entry per element and is broadcast along the last
\* axis, so that with one element every entry is divided by its sum and with
\* four elements entry [i][j] is divided by the sum of element j; a sum of
\* zero of a non-negative field divides zero by zero
point_field_proportions(point_field, points, i, j) ==
    LET total == element_sum(point_field, points, IF Len(points) = 1 THEN 1 ELSE j)
    IN IF total = Zero THEN NaN ELSE QDiv(point_field[points[i][j]], total)

\* (point_field_proportions * amount / mesh.point_dual_volumes[points])[i][j]
uptake_at(point_field, point_dual_volumes, points, amount, i, j) ==
    LET proportion == point_field_proportions(point_field, points, i, j)
    IN IF proportion = NaN THEN NaN
       ELSE QDiv(QMul(proportion, Q(amount)), Q(point_dual_volumes[points[i][j]]))

RECURSIVE subtract_at(_, _, _, _, _, _)
\* np.subtract.at(point_field, points, ...) at point p: the first n entries
\* of points, row by row, each subtracted in turn where it names p
subtract_at(point_field, point_dual_volumes, points, amount, p, n) ==
    IF n = 0 THEN point_field[p]
    ELSE LET i == ((n - 1) \div 4) + 1
             j == ((n - 1) % 4) + 1
             so_far == subtract_at(point_field, point_dual_volumes, points, amount, p, n - 1)
             taken == uptake_at(point_field, point_dual_volumes, points, amount, i, j)
         IN IF points[i][j] # p THEN so_far
            ELSE IF so_far = NaN \/ taken = NaN THEN NaN
            ELSE QSub(so_far, taken)

uptake_in_element(point_field, point_dual_volumes, element_index, amount, np_seterr) ==
    IF element_index.isscalar
    THEN \* point_field[points] has one axis
         [kind |-> "AxisError", field |-> point_field]
    ELSE LET points == [i \in DOMAIN element_index.value |->
                           element_point_indices[element_index.value[i]]]
         IN IF Len(points) \notin {1, 4}
            THEN \* shapes (k, 4) and (k,) do not broadcast
                 [kind |-> "ValueError", field |-> point_field]
            ELSE IF /\ np_seterr = "raise"
                    /\ \E i \in DOMAIN points : element_sum(point_field, points, i) = Zero
            THEN [kind |-> "FloatingPointError", field |-> point_field]
            ELSE [kind |-> "value",
                  field |-> [p \in MeshPoints |->
                               subtract_at(point_field, point_dual_volumes, points, amount,
                                           p, 4 * Len(points))]]

\* the element indices a call may be given: an int, or an array of one to four
ElementIndices ==
    { [isscalar |-> TRUE, value |-> e] : e \in DOMAIN element_point_indices }
    \cup { [isscalar |-> FALSE, value |-> v] :
             v \in UNION { [1 .. n -> DOMAIN element_point_indices] : n \in 1 .. 4 } }

UptakeInElement ==
    /\ util_call = "none"
    /\ \E field \in [MeshPoints -> 0 .. MaxAmount],
          point_dual_volumes \in [MeshPoints -> DualVolumes],
          element_index \in ElementIndices,
          amount \in 0 .. (MaxX + 1),
          np_seterr \in SetErrs :
       \E point_field \in { [p \in MeshPoints |-> Q(field[p])] } :
          /\ util_args' = [point_field |-> point_field,
                           point_dual_volumes |-> point_dual_volumes,
                           element_index |-> element_index,
                           amount |-> amount, np_seterr |-> np_seterr]
          /\ util_out' = uptake_in_element(point_field, point_dual_volumes, element_index,
                                           amount, np_seterr)
    /\ util_call' = "uptake_in_element"
    /\ UNCHANGED <<moduleVars, lapVars, diffVars, chemoVars>>

(***************************************************************************)
(* nlisim.modulesv2.tafc: TAFC.advance                                     *)
(*                                                                         *)
(* A grid is a sequence of amounts, one per voxel.  A fungal cell is a     *)
(* record [voxel, state, status, MirB, EstB, TAFC, iron_pool].             *)
(***************************************************************************)
\* MoleculeModel.michaelian_kinetics(substrate, enzyme, km, h, voxel_volume)
\* at one voxel, for km * voxel_volume > 0
molecule_michaelian_kinetics(substrate, enzyme, km_volume, h) ==
    QDiv(QMul(h, QMul(enzyme, substrate)), QAdd(substrate, km_volume))

\* rel = tafc.grid['TAFC'] / total_change; rel[total_change == 0] = 0.0;
\* np.maximum(rel, 1.0, out=rel)
tafc_rel(tafc_amount, total_change) ==
    LET rel == IF total_change[1] = 0 THEN Zero ELSE QDiv(tafc_amount, total_change)
    IN IF Less(rel, <<1, 1>>) THEN <<1, 1>> ELSE rel

\* the locals of the interaction with transferrin at voxel i
tafc_transfer(grid, tf, cfg, i) ==
    LET dfe2dt == molecule_michaelian_kinetics(tf.TfFe2[i], grid.TAFC[i], cfg.km_volume, cfg.h)
        dfedt == molecule_michaelian_kinetics(tf.TfFe[i], grid.TAFC[i], cfg.km_volume, cfg.h)
        rel == tafc_rel(grid.TAFC[i], QAdd(dfe2dt, dfedt))
    IN [rate2 |-> dfe2dt, rate1 |-> dfedt, rel |-> rel,
        dfe2dt |-> QMul(dfe2dt, rel), dfedt |-> QMul(dfedt, rel)]

\* the grids after the interaction with transferrin
tafc_transferrin_interaction(grid, tf, tr) ==
    [tafc |-> [TAFC |-> [i \in DOMAIN grid.TAFC |->
                           QSub(grid.TAFC[i], QAdd(tr[i].dfe2dt, tr[i].dfedt))],
               TAFCBI |-> [i \in DOMAIN grid.TAFC |->
                             QAdd(grid.TAFCBI[i], QAdd(tr[i].dfe2dt, tr[i].dfedt))]],
     transferrin |-> [TfFe2 |-> [i \in DOMAIN grid.TAFC |-> QSub(tf.TfFe2[i], tr[i].dfe2dt)],
                      TfFe |-> [i \in DOMAIN grid.TAFC |->
                                  QSub(QAdd(tf.TfFe[i], tr[i].dfe2dt), tr[i].dfedt)],
                      Tf |-> [i \in DOMAIN grid.TAFC |-> QAdd(tf.Tf[i], tr[i].dfedt)]]]

\* interaction with iron: all available iron is bound to TAFC
tafc_iron_interaction(grid, fe) ==
    [tafc |-> [TAFC |-> [i \in DOMAIN fe |-> QSub(grid.TAFC[i], QMin(fe[i], grid.TAFC[i]))],
               TAFCBI |-> [i \in DOMAIN fe |-> QAdd(grid.TAFCBI[i], QMin(fe[i], grid.TAFC[i]))]],
     iron |-> [i \in DOMAIN fe |-> QSub(fe[i], QMin(fe[i], grid.TAFC[i]))]]

\* one iteration of the loop over the fungal cells: st is [tafc, cells]
tafc_fungus_cell(st, index, cfg) ==
    LET cell == st.cells[index]
        v == cell.voxel
        qtty == QMul(st.tafc.TAFCBI[v], cfg.tafc_up)
        uptake == cell.MirB /\ cell.EstB
        secrete == cell.TAFC /\ cell.status \in {"SWELLING_CONIDIA", "HYPHAE", "GERM_TUBE"}
    IN IF cell.state # "FREE" \/ cell.status = "DYING" THEN st
       ELSE [tafc |-> [TAFC |-> IF secrete
                                THEN [st.tafc.TAFC EXCEPT ![v] = QAdd(@, cfg.tafc_qtty)]
                                ELSE st.tafc.TAFC,
                       TAFCBI |-> IF uptake
                                  THEN [st.tafc.TAFCBI EXCEPT ![v] = QSub(@, qtty)]
                                  ELSE st.tafc.TAFCBI],
             cells |-> IF uptake
                       THEN [st.cells EXCEPT ![index].iron_pool = QAdd(@, qtty)]
                       ELSE st.cells]

RECURSIVE tafc_fungus_from(_, _, _)
\* the loop over afumigatus.cells.alive(), from position k of the population
tafc_fungus_from(st, k, cfg) ==
    IF k > Len(st.cells) THEN st
    ELSE IF st.cells[k].status = "DEAD" THEN tafc_fungus_from(st, k + 1, cfg)
    ELSE tafc_fungus_from(tafc_fungus_cell(st, k, cfg), k + 1, cfg)

\* turnover_rate(x_mol=..., x_system_mol=..., ...): turnover_rate of
\* nlisim.util has the keyword-only parameters x and x_system
tafc_turnover_call == "TypeError"

TAFCAdvance ==
    /\ module_call = "none"
    /\ config.module = "tafc"
    /\ \E tr \in { [i \in DOMAIN tafc.TAFC |-> tafc_transfer(tafc, transferrin, config, i)] } :
       \E mid \in { tafc_transferrin_interaction(tafc, transferrin, tr) } :
       \E bound \in { tafc_iron_interaction(mid.tafc, iron_grid) } :
       \E fin \in { tafc_fungus_from([tafc |-> bound.tafc, cells |-> afumigatus], 1, config) } :
          /\ locals' = [before |-> [tafc |-> tafc, transferrin |-> transferrin],
                        transfer |-> tr, after_transferrin |-> mid]
          /\ transferrin' = mid.transferrin
          /\ iron_grid' = bound.iron
          /\ tafc' = fin.tafc
          /\ afumigatus' = fin.cells
    /\ module_raised' = tafc_turnover_call
    /\ module_call' = "tafc"
    /\ UNCHANGED <<lapVars, diffVars, chemoVars, utilVars, erythrocyte, hemoglobin, hemolysin,
                   config>>

(***************************************************************************)
(* nlisim.modulesv2.erythrocyte: ErythrocyteModel.advance                  *)
(*                                                                         *)
(* Counts and amounts are whole numbers; a Poisson draw with a positive    *)
(* mean is any number in 0 .. MaxPoisson, and 0 for the mean 0.            *)
(***************************************************************************)
\* avg > 0 for avg = (1 - molecules.turnover_rate) * (1 - count / max_erythrocyte_voxel)
replenish_mask(count, cfg) ==
    (cfg.turnover_rate[2] - cfg.turnover_rate[1]) * (cfg.max_erythrocyte_voxel - count) > 0

\* mutant: the draw is taken from the count
erythrocyte_replenish_taken(count, cfg, draw) ==
    [i \in DOMAIN count |-> IF replenish_mask(count[i], cfg) THEN count[i] - draw[i] ELSE count[i]]

\* erythrocyte.cells['count'][mask] += np.random.poisson(avg[mask], ...)
erythrocyte_replenish(count, cfg, draw) ==
    [i \in DOMAIN count |-> IF replenish_mask(count[i], cfg) THEN count[i] + draw[i] ELSE count[i]]

\* activation_function(x=hemolysin.grid, kd=..., h=..., volume=...):
\* activation_function has the keyword-only parameter k_d and none named kd
erythrocyte_activation_call(x, cfg) == [kind |-> "TypeError"]

\* the Poisson draws that are possible, given which means are positive
PoissonDraws(positive) ==
    { dr \in [DOMAIN positive -> 0 .. MaxPoisson] : \A i \in DOMAIN positive : ~positive[i] => dr[i] = 0 }

\* lines 81-84: num = np.minimum(np.random.poisson(avg, shape), count)
erythrocyte_lysis(ery, cfg, draw) ==
    LET num == [i \in DOMAIN draw |-> IF draw[i] < ery.count[i] THEN draw[i] ELSE ery.count[i]]
    IN [ery EXCEPT !.count = [i \in DOMAIN draw |-> ery.count[i] - num[i]],
                     !.hemoglobin = [i \in DOMAIN draw |->
                                       ery.hemoglobin[i] + num[i] * cfg.hemoglobin_concentration]]

\* lines 87-89: erythrocytes_to_hemorrhage
erythrocytes_to_hemorrhage(ery, draw) ==
    [i \in DOMAIN draw |-> IF ery.hemorrhage[i] THEN draw[i] ELSE 0]

\* lines 105-109: the voxels of the living hyphae are marked
erythrocyte_fungus(ery, fungi) ==
    [ery EXCEPT !.hemorrhage =
        [i \in DOMAIN ery.hemorrhage |->
            ery.hemorrhage[i]
            \/ \E f \in DOMAIN fungi : /\ fungi[f].status = "HYPHAE"
                                        /\ fungi[f].voxel = i]]

\* lines 91-109 for the drawn numbers dr2: erythrocyte.cells is a numpy
\* array and has no get_cells_in_voxel, so the first voxel with cells to
\* hemorrhage raises AttributeError, before the subtraction of line 102
erythrocyte_hemorrhage(lysed, dr1, dr2, fungi) ==
    IF \E i \in DOMAIN dr2 : erythrocytes_to_hemorrhage(lysed, dr2)[i] > 0
    THEN [cells |-> lysed, raised |-> "AttributeError", lysis |-> dr1, hemorrhage |-> dr2]
    ELSE [cells |-> erythrocyte_fungus(
                       [lysed EXCEPT !.count =
                           [i \in DOMAIN dr2 |->
                               lysed.count[i] - erythrocytes_to_hemorrhage(lysed, dr2)[i]]],
                       fungi),
          raised |-> "none", lysis |-> dr1, hemorrhage |-> dr2]

\* the part of advance after the activation values act[i] were computed:
\* the outcomes for every Poisson draw
erythrocyte_interactions(ery, cfg, act, fungi) ==
    UNION { { erythrocyte_hemorrhage(erythrocyte_lysis(ery, cfg, dr1), dr1, dr2, fungi) :
                dr2 \in PoissonDraws([i \in DOMAIN act |->
                          cfg.pr_ma_phag_eryt[1]
                             * erythrocyte_lysis(ery, cfg, dr1).count[i] > 0]) } :
            dr1 \in PoissonDraws([i \in DOMAIN act |-> ery.count[i] * act[i].val[1] > 0]) }

ErythrocyteAdvance ==
    /\ module_call = "none"
    /\ config.module = "erythrocyte"
    /\ \E dr0 \in PoissonDraws([i \in DOMAIN erythrocyte.count |->
                                   replenish_mask(erythrocyte.count[i], config)]) :
       \E taken \in { [count |-> erythrocyte_replenish(erythrocyte.count, config, dr0),
                        hemoglobin |-> [i \in DOMAIN hemoglobin |->
                                          erythrocyte.hemoglobin[i] + hemoglobin[i]],
                        hemorrhage |-> erythrocyte.hemorrhage] } :
       \E act \in { [i \in DOMAIN hemolysin |->
                        erythrocyte_activation_call(hemolysin[i], config)] } :
          IF \E i \in DOMAIN act : act[i].kind # "value"
          THEN /\ erythrocyte' = taken
               /\ module_raised' = act[CHOOSE i \in DOMAIN act : act[i].kind # "value"].kind
               /\ locals' = [before |-> erythrocyte, replenish |-> dr0]
          ELSE \E out \in erythrocyte_interactions(taken, config, act, afumigatus) :
               /\ erythrocyte' = out.cells
               /\ module_raised' = out.raised
               /\ locals' = [before |-> erythrocyte, replenish |-> dr0,
                             lysis |-> out.lysis, hemorrhage |-> out.hemorrhage]
    /\ hemoglobin' = [i \in DOMAIN hemoglobin |-> 0]
    /\ module_call' = "erythrocyte"
    /\ UNCHANGED <<lapVars, diffVars, chemoVars, utilVars, tafc, transferrin, iron_grid,
                   afumigatus, hemolysin, config>>

(***************************************************************************)
(* Specification of the Laplacian builders                                 *)
(***************************************************************************)
\* the enumerated grid shapes, and the 3x3x3 scenario grid
Shapes == { sh \in (1 .. MaxExtent) \X (1 .. MaxExtent) \X (1 .. MaxExtent) :
              NumCells(sh) <= MaxCells }

ScenarioShape == <<3, 3, 3>>

DeltasOf(sh) == { dl \in [1 .. 3 -> UNION { [0 .. (n - 1) -> Deltas] : n \in 1 .. MaxExtent }] :
                    \A a \in 1 .. 3 : DOMAIN dl[a] = 0 .. (sh[a] - 1) }

UnitDelta(sh) == [a \in 1 .. 3 |-> [c \in 0 .. (sh[a] - 1) |-> 1]]

AllActive(sh) == [i \in Indices(sh) |-> TRUE]

InitGrid ==
    \/ /\ shape \in Shapes
       /\ mask \in [Indices(shape) -> BOOLEAN]
       /\ delta \in DeltasOf(shape)
    \/ /\ shape = ScenarioShape
       /\ mask = AllActive(shape)
       /\ delta = UnitDelta(shape)

\* no diffusion call has been made
DiffIdle ==
    /\ grid_a = << >> /\ grid_b = << >> /\ cn_a = << >> /\ cn_b = << >>
    /\ info = 0 /\ result = << >> /\ call = "none" /\ raised = FALSE
    /\ before = << >> /\ ticks = 0

\* no population and no field for chemotaxis
ChemoIdle ==
    /\ tissue = << >> /\ molecule = << >> /\ drift_bias = 0
    /\ cells = << >> /\ pre_cells = << >> /\ moves = << >>
    /\ chemo = "none" /\ crashed = FALSE /\ passes = 0
    /\ generators = NoDraws /\ draws = << >> /\ tgfb_grid = << >>

\* no call of a function of nlisim.util
UtilIdle == util_call = "none" /\ util_args = << >> /\ util_out = << >>

\* no state of the modules of nlisim/modulesv2
ModuleIdle ==
    /\ tafc = << >> /\ transferrin = << >> /\ iron_grid = << >> /\ afumigatus = << >>
    /\ erythrocyte = << >> /\ hemoglobin = << >> /\ hemolysin = << >> /\ config = << >>
    /\ module_call = "none" /\ module_raised = "none" /\ locals = << >>

InitLap ==
    /\ InitGrid
    /\ built = "none"
    /\ laplacian = << >>
    /\ variable = << >>
    /\ halfDdt = <<1, 2>>
    /\ DiffIdle
    /\ ChemoIdle
    /\ UtilIdle
    /\ ModuleIdle

DiscreteLaplacian ==
    /\ built' = "absorbing"
    /\ laplacian' = discrete_laplacian(shape, mask, delta)
    /\ UNCHANGED <<moduleVars, shape, mask, delta, diffVars, chemoVars, utilVars>>

PeriodicDiscreteLaplacian ==
    /\ built' = "periodic"
    /\ laplacian' = periodic_discrete_laplacian(shape, mask, delta)
    /\ UNCHANGED <<moduleVars, shape, mask, delta, diffVars, chemoVars, utilVars>>

NextLap == DiscreteLaplacian \/ PeriodicDiscreteLaplacian

SpecLap == InitLap /\ [][NextLap]_vars

(***************************************************************************)
(* Specification of the diffusion step: a Laplacian built for a one-axis   *)
(* grid, a non-negative field, and one diffusion call of either pattern    *)
(***************************************************************************)
LineShapes == { sh \in (1 .. MaxLine) \X (1 .. MaxLine) \X (1 .. MaxLine) :
                  Cardinality({ a \in 1 .. 3 : sh[a] > 1 }) <= 1 }

LineDeltas(sh) == { dl \in [1 .. 3 -> UNION { [0 .. (n - 1) -> Deltas] : n \in 1 .. MaxLine }] :
                      \A a \in 1 .. 3 : /\ DOMAIN dl[a] = 0 .. (sh[a] - 1)
                                        /\ sh[a] = 1 => dl[a][0] = 1 }

\* the values D*dt/2 may take
HalfDdts == { <<1, 2>>, <<4, 1>> }

InitDiff ==
    /\ shape \in LineShapes
    /\ mask \in [Indices(shape) -> BOOLEAN]
    /\ delta \in LineDeltas(shape)
    /\ \/ built = "absorbing" /\ laplacian = discrete_laplacian(shape, mask, delta)
       \/ built = "periodic" /\ laplacian = periodic_discrete_laplacian(shape, mask, delta)
    /\ variable \in { [n |-> f, d |-> 1] : f \in [Indices(shape) -> 0 .. MaxAmount] }
    /\ halfDdt \in HalfDdts
    /\ DiffIdle
    /\ ChemoIdle
    /\ UtilIdle
    /\ ModuleIdle

NextDiff ==
    \/ ApplyGridDiffusion
    \/ AssembleMeshLaplacianCrankNicholson
    \/ ApplyMeshDiffusionCrankNicholson

SpecDiff == InitDiff /\ [][NextDiff]_vars

(***************************************************************************)
(* Specification of chemotaxis: a population on the 3x3x3 grid, a tissue   *)
(* array and an attractant field, and one chemotaxis pass                  *)
(***************************************************************************)
DoubleDelta(sh) == [a \in 1 .. 3 |-> [c \in 0 .. (sh[a] - 1) |-> 2]]

VoxelsOf(sh) == { get_voxel_of_index(sh, i) : i \in Indices(sh) }

\* one tissue type everywhere, or a mix of all the types
TissuePatterns(sh) ==
    { [i \in Indices(sh) |-> t] : t \in {AIR, BLOOD, SURFACTANT} }
    \cup { [i \in Indices(sh) |->
               LET v == get_voxel_of_index(sh, i) IN (v.x + 2 * v.y + 3 * v.z) % 6] }

\* a flat field, or a gradient along x
MoleculePatterns(sh) ==
    { [i \in Indices(sh) |-> 0] }
    \cup { [i \in Indices(sh) |->
               LET v == get_voxel_of_index(sh, i)
               IN IF v.x < MaxLevel THEN v.x ELSE MaxLevel] }

\* the voxels agents start in: the diagonal and one edge voxel
StartVoxels(sh) ==
    { v \in VoxelsOf(sh) : (v.x = v.y /\ v.y = v.z) \/ (v.x = sh[3] - 1 /\ v.y = 1 /\ v.z = 0) }

\* an agent in voxel v, at the centre (off = 0) or off the centre (off = 1)
NewCell(sh, dl, v, off, st) ==
    update_voxel_index(sh, dl,
        [point |-> [x |-> grid_x(sh, dl, 3, v.x) + off,
                    y |-> grid_x(sh, dl, 2, v.y) + off,
                    z |-> grid_x(sh, dl, 1, v.z) + off],
         voxel |-> v, status |-> st, iron_pool |-> Zero])

FirstCells(sh, dl) ==
    { NewCell(sh, dl, v, off, st) :
        v \in StartVoxels(sh), off \in {0, 1}, st \in {RESTING, ACTIVE} }
    \cup { NewCell(sh, dl, v, 0, st) :
             v \in StartVoxels(sh), st \in {APOPTOTIC, DEAD, LEFT, INACTIVE} }

\* the agents after the first start off the centre of a low diagonal voxel
OtherCells(sh, dl) ==
    { NewCell(sh, dl, v, 1, RESTING) : v \in { u \in StartVoxels(sh) : u.x = u.z /\ u.x <= 1 } }

Populations(sh, dl) ==
    { << >> } \cup
    UNION { { <<c>> \o rest : c \in FirstCells(sh, dl), rest \in [1 .. n -> OtherCells(sh, dl)] } :
            n \in 0 .. (MaxAgents - 1) }

InitChemo ==
    /\ shape = ScenarioShape
    /\ delta \in {UnitDelta(shape), DoubleDelta(shape)}
    /\ mask = AllActive(shape)
    /\ built = "none"
    /\ laplacian = << >>
    /\ variable = << >>
    /\ halfDdt = <<1, 2>>
    /\ DiffIdle
    /\ tissue \in TissuePatterns(shape)
    /\ molecule \in MoleculePatterns(shape)
    /\ drift_bias \in {LogisticScale \div 2, LogisticScale}
    /\ cells \in Populations(shape, delta)
    /\ pre_cells = cells
    /\ moves = [a \in 1 .. Len(cells) |-> NoMove]
    /\ chemo = "idle"
    /\ crashed = FALSE
    /\ passes = 0
    /\ generators = NoDraws
    /\ draws = << >>
    /\ tgfb_grid = [i \in Indices(shape) |-> [n |-> 0, deg |-> 0]]
    /\ UtilIdle
    /\ ModuleIdle

NextChemo ==
    \/ MacrophageInitialize
    \/ PhagocyteChemotaxis
    \/ MacrophageChemotaxis
    \/ MacrophageAdvance
    \/ TGFBAdvance

SpecChemo == InitChemo /\ [][NextChemo]_vars

(***************************************************************************)
(* Specification of the primitives of nlisim.util: one call                *)
(***************************************************************************)
InitUtil ==
    /\ shape = <<1, 1, 1>>
    /\ mask = AllActive(shape)
    /\ delta = UnitDelta(shape)
    /\ built = "none"
    /\ laplacian = << >>
    /\ variable = << >>
    /\ halfDdt = <<1, 2>>
    /\ DiffIdle
    /\ ChemoIdle
    /\ UtilIdle
    /\ ModuleIdle

NextUtil ==
    \/ ChooseVoxelByProb
    \/ TurnoverRate
    \/ MichaelianKinetics
    \/ ActivationFunction
    \/ IronTfReaction
    \/ TetrahedralGradient
    \/ UptakeInElement

SpecUtil == InitUtil /\ [][NextUtil]_vars

(***************************************************************************)
(* Specification of the modules of nlisim/modulesv2: one advance           *)
(***************************************************************************)
\* the fungal cells of the populations: in voxel 1, with an empty iron pool
FungalCells ==
    { [voxel |-> 1, state |-> st, status |-> su, MirB |-> TRUE, EstB |-> eb, TAFC |-> TRUE,
       iron_pool |-> Zero] :
        st \in {"FREE", "INTERNALIZING"}, su \in {"HYPHAE", "RESTING_CONIDIA", "DYING", "DEAD"},
        eb \in BOOLEAN }

\* grids of one voxel, and of two voxels that hold the same amounts
InitTAFC ==
    /\ \E n \in 1 .. 2 :
       \E a \in 0 .. MaxX, b \in 0 .. MaxX, c \in 0 .. MaxX, d \in 0 .. 1 :
          /\ tafc = [TAFC |-> [i \in 1 .. n |-> Q(a)], TAFCBI |-> [i \in 1 .. n |-> Q(d)]]
          /\ transferrin = [TfFe2 |-> [i \in 1 .. n |-> Q(b)], TfFe |-> [i \in 1 .. n |-> Q(c)],
                             Tf |-> [i \in 1 .. n |-> Q(d)]]
          /\ iron_grid \in { [i \in 1 .. n |-> Q(e)] : e \in 0 .. 1 }
    /\ afumigatus \in { << >> } \cup { <<c>> : c \in FungalCells }
    /\ config \in { [module |-> "tafc", km_volume |-> Q(1), h |-> h, tafc_up |-> <<1, 2>>,
                      tafc_qtty |-> Q(1)] : h \in { <<1, 30>>, <<1, 1>> } }
    /\ erythrocyte = << >> /\ hemoglobin = << >> /\ hemolysin = << >>

InitErythrocyte ==
    /\ \E n \in 1 .. 2 :
          /\ erythrocyte \in { [count |-> c, hemoglobin |-> [i \in 1 .. n |-> 0], hemorrhage |-> hm] :
                                 c \in [1 .. n -> 0 .. MaxX], hm \in [1 .. n -> BOOLEAN] }
          /\ hemoglobin \in { [i \in 1 .. n |-> a] : a \in 0 .. 1 }
          /\ hemolysin \in { [i \in 1 .. n |-> a] : a \in 0 .. 1 }
    /\ afumigatus \in { << >> } \cup { <<c>> : c \in { f \in FungalCells : f.state = "FREE" /\ f.EstB } }
    /\ config \in { [module |-> "erythrocyte", turnover_rate |-> t, max_erythrocyte_voxel |-> MaxX,
                      kd_hemo |-> 1, volume |-> 1, h |-> 1, hemoglobin_concentration |-> 1,
                      pr_ma_phag_eryt |-> <<1, 2>>] : t \in { <<1, 2>>, <<1, 1>> } }
    /\ tafc = << >> /\ transferrin = << >> /\ iron_grid = << >>

\* a row of two voxels with up to MaxAgents agents at the voxel centres, alive
\* or dead, each with an iron pool
InitInteract ==
    /\ shape = <<1, 1, 2>>
    /\ delta = UnitDelta(shape)
    /\ cells \in UNION { [1 .. n ->
                            { [NewCell(shape, delta, v, 0, st) EXCEPT !.iron_pool = Q(pool)] :
                                v \in VoxelsOf(shape), st \in {RESTING, DEAD},
                                pool \in 0 .. 1 }] : n \in 0 .. MaxAgents }
    /\ iron_grid \in [Indices(shape) -> { Q(a) : a \in 0 .. MaxX }]
    /\ config \in { [module |-> "macrophage", MPH_UPTAKE_QTTY |-> u] :
                      u \in { <<1, 3>>, <<1, 2>>, <<3, 2>> } }
    /\ tafc = << >> /\ transferrin = << >> /\ afumigatus = << >>
    /\ erythrocyte = << >> /\ hemoglobin = << >> /\ hemolysin = << >>

\* no grid and no population
NoPopulation ==
    /\ shape = <<1, 1, 1>>
    /\ delta = UnitDelta(shape)
    /\ cells = << >>

InitModules ==
    /\ \/ NoPopulation /\ InitTAFC
       \/ NoPopulation /\ InitErythrocyte
       \/ InitInteract
    /\ mask = AllActive(shape)
    /\ built = "none"
    /\ laplacian = << >>
    /\ variable = << >>
    /\ halfDdt = <<1, 2>>
    /\ DiffIdle
    /\ tissue = << >> /\ molecule = << >> /\ drift_bias = 0
    /\ pre_cells = << >> /\ moves = << >>
    /\ chemo = "none" /\ crashed = FALSE /\ passes = 0
    /\ generators = NoDraws /\ draws = << >> /\ tgfb_grid = << >>
    /\ UtilIdle
    /\ module_call = "none" /\ module_raised = "none" /\ locals = << >>

NextModules ==
    \/ TAFCAdvance
    \/ ErythrocyteAdvance
    \/ MacrophageInteract

SpecModules == InitModules /\ [][NextModules]_vars

(***************************************************************************)
(* Properties of the Laplacian builders                                    *)
(***************************************************************************)
\* sum of the off-diagonal entries of row i
OffDiagonalSum(L, sh, i) ==
    SumTo([j \in Indices(sh) |-> IF j = i THEN 0 ELSE L[i][j]], NumCells(sh))

\* the axes (1=z, 2=y, 3=x) along which voxels a and b have different coordinates
Coord(v, a) == IF a = 1 THEN v.z ELSE IF a = 2 THEN v.y ELSE v.x

DifferingAxes(a, b) == { ax \in 1 .. 3 : Coord(a, ax) # Coord(b, ax) }

\* 1/d^2 for the spacing d of voxel v along axis ax, in units of 1/WeightScale
AxisWeight(dl, v, ax) == WeightScale \div (dl[ax][Coord(v, ax)] * dl[ax][Coord(v, ax)])

\* i and j differ by exactly one step along exactly one axis, inside the grid
FaceAdjacent(sh, i, j) ==
    LET a == get_voxel_of_index(sh, i)
        b == get_voxel_of_index(sh, j)
    IN /\ Cardinality(DifferingAxes(a, b)) = 1
       /\ \A ax \in DifferingAxes(a, b) : Abs(Coord(a, ax) - Coord(b, ax)) = 1

\* number of +1/-1 steps along axis ax, modulo the extent, that lead from a to b
PeriodicSteps(sh, a, b, ax) ==
    Cardinality({ s \in {-1, 1} : (Coord(a, ax) + s) % sh[ax] = Coord(b, ax) })

\* i and j are distinct voxels one modular step apart along exactly one axis
PeriodicAdjacent(sh, i, j) ==
    LET a == get_voxel_of_index(sh, i)
        b == get_voxel_of_index(sh, j)
    IN /\ Cardinality(DifferingAxes(a, b)) = 1
       /\ \A ax \in DifferingAxes(a, b) : PeriodicSteps(sh, a, b, ax) > 0

TheAxis(sh, i, j) ==
    CHOOSE ax \in 1 .. 3 :
        ax \in DifferingAxes(get_voxel_of_index(sh, i), get_voxel_of_index(sh, j))

IsInterior(sh, i) ==
    LET v == get_voxel_of_index(sh, i)
    IN \A ax \in 1 .. 3 : 0 < Coord(v, ax) /\ Coord(v, ax) < sh[ax] - 1

IsScenario == shape = ScenarioShape /\ mask = AllActive(shape) /\ delta = UnitDelta(shape)

\* C1: in the matrix built by either builder, the diagonal entry of every
\* active row is the negative of the sum of the row's off-diagonal entries,
\* so the row sums to zero.
C1_RowSumsZero ==
    built # "none" =>
        \A i \in Indices(shape) :
            mask[i] => laplacian[i][i] = - OffDiagonalSum(laplacian, shape, i)

\* a periodic and an absorbing case with a coupled active row
C1_Witness ==
    /\ built = "periodic"
    /\ \E i \in Indices(shape) :
          mask[i] /\ laplacian[i][i] < 0 /\ OffDiagonalSum(laplacian, shape, i) > 0

\* C2: for the absorbing builder, an off-diagonal entry is 1/d^2 when both
\* voxels are in the mask and face-adjacent inside the grid, and 0 otherwise;
\* rows and columns of unmasked voxels are zero; on the 3x3x3 all-active unit
\* grid the diagonal is -6 at the interior voxel and smaller in magnitude at
\* every boundary voxel.
C2_AbsorbingEntries ==
    built = "absorbing" =>
        /\ \A i, j \in Indices(shape) :
              i # j =>
                laplacian[i][j] =
                    IF mask[i] /\ mask[j] /\ FaceAdjacent(shape, i, j)
                    THEN AxisWeight(delta, get_voxel_of_index(shape, i), TheAxis(shape, i, j))
                    ELSE 0
        /\ \A i, j \in Indices(shape) :
              (~mask[i] \/ ~mask[j]) => laplacian[i][j] = 0
        /\ IsScenario =>
              \A i \in Indices(shape) :
                  IF IsInterior(shape, i)
                  THEN laplacian[i][i] = -6 * WeightScale
                  ELSE Abs(laplacian[i][i]) < 6 * WeightScale

C2_Witness ==
    /\ built = "absorbing"
    /\ IsScenario
    /\ \E i \in Indices(shape) : IsInterior(shape, i) /\ laplacian[i][i] = -6 * WeightScale

\* C3 as stated: for the periodic builder every pair of distinct neighbouring
\* (modulo the extents) masked voxels has the edge weight 1/d^2, and every
\* other off-diagonal entry is zero.
C3_PeriodicSingleWeight ==
    built = "periodic" =>
        \A i, j \in Indices(shape) :
            i # j =>
              laplacian[i][j] =
                  IF mask[i] /\ mask[j] /\ PeriodicAdjacent(shape, i, j)
                  THEN AxisWeight(delta, get_voxel_of_index(shape, i), TheAxis(shape, i, j))
                  ELSE 0

\* C3 amended: the edge weight between distinct masked voxels that are one
\* modular step apart along one axis is 1/d^2 times the number of steps (+1,
\* -1) that lead from i to j: 2/d^2 along an axis of extent 2, 1/d^2 along a
\* longer axis; every other off-diagonal entry is zero.
C3_PeriodicEntries ==
    built = "periodic" =>
        \A i, j \in Indices(shape) :
            i # j =>
              laplacian[i][j] =
                  IF mask[i] /\ mask[j] /\ PeriodicAdjacent(shape, i, j)
                  THEN PeriodicSteps(shape, get_voxel_of_index(shape, i),
                                     get_voxel_of_index(shape, j), TheAxis(shape, i, j))
                       * AxisWeight(delta, get_voxel_of_index(shape, i), TheAxis(shape, i, j))
                  ELSE 0

\* a periodic Laplacian on a grid with an axis of extent 2 and one of extent 3,
\* with a doubled edge and a wrapped edge
C3_Witness ==
    /\ built = "periodic"
    /\ \E i, j \in Indices(shape) :
          /\ i # j /\ mask[i] /\ mask[j]
          /\ PeriodicAdjacent(shape, i, j)
          /\ shape[TheAxis(shape, i, j)] = 2
          /\ laplacian[i][j] =
                2 * AxisWeight(delta, get_voxel_of_index(shape, i), TheAxis(shape, i, j))
    /\ \E i, j \in Indices(shape) :
          /\ i # j /\ mask[i] /\ mask[j]
          /\ PeriodicAdjacent(shape, i, j)
          /\ ~FaceAdjacent(shape, i, j)
          /\ laplacian[i][j] =
                AxisWeight(delta, get_voxel_of_index(shape, i), TheAxis(shape, i, j))

(***************************************************************************)
(* Properties of the diffusion step                                        *)
(***************************************************************************)
\* the identity matrix minus/plus (D*dt/2) L, written out entry by entry
IdentityMinus(lap, c, len) ==
    [m |-> [i \in 0 .. (len - 1) |-> [j \in 0 .. (len - 1) |->
               IF i = j THEN c[2] * WeightScale - c[1] * lap[i][j] ELSE - c[1] * lap[i][j]]],
     s |-> c[2] * WeightScale]

IdentityPlus(lap, c, len) ==
    [m |-> [i \in 0 .. (len - 1) |-> [j \in 0 .. (len - 1) |->
               IF i = j THEN c[2] * WeightScale + c[1] * lap[i][j] ELSE c[1] * lap[i][j]]],
     s |-> c[2] * WeightScale]

\* C4: assemble_mesh_laplacian_crank_nicholson returns the operator pair that
\* apply_grid_diffusion builds for the same L, D and dt: A = I - (D*dt/2) L is
\* solved against and B = I + (D*dt/2) L is applied to the field.
C4_SameOperatorPair ==
    /\ grid_a # << >> =>
          /\ grid_a = IdentityMinus(laplacian, halfDdt, NumCells(shape))
          /\ grid_b = IdentityPlus(laplacian, halfDdt, NumCells(shape))
    /\ cn_a # << >> =>
          /\ cn_a = IdentityMinus(laplacian, halfDdt, NumCells(shape))
          /\ cn_b = IdentityPlus(laplacian, halfDdt, NumCells(shape))
    /\ (grid_a # << >> /\ cn_a # << >>) => (cn_a = grid_a /\ cn_b = grid_b)

\* C5: after a diffusion call that returned, no entry of the field is
\* negative: every negative entry of the solver's vector is replaced by zero
\* and every other entry is kept as solved.
C5_NonNegativeField ==
    (call # "none" /\ ~raised) =>
        /\ variable.d = result.d
        /\ \A i \in Indices(shape) :
              /\ variable.n[i] >= 0
              /\ result.n[i] < 0 => variable.n[i] = 0
              /\ result.n[i] >= 0 => variable.n[i] = result.n[i]

\* a one-shot call whose exact solution overshoots below zero in one voxel
C5_Witness ==
    /\ call = "grid" /\ ~raised /\ info = 0
    /\ \E i, j \in Indices(shape) :
          result.n[i] < 0 /\ variable.n[i] = 0 /\ result.n[j] > 0 /\ variable.n[j] = result.n[j]

UniformSpacing ==
    \A a \in 1 .. 3 : \A c1, c2 \in DOMAIN delta[a] : delta[a][c1] = delta[a][c2]

\* u and v have the same sum of entries
SameTotal(u, v, len) == SumTo(u.n, len) * v.d = SumTo(v.n, len) * u.d

\* C7 as stated: one apply_grid_diffusion step with an exact solve leaves the
\* sum of the field unchanged, for every mask and every spacing.
C7_MassConserved ==
    (call = "grid" /\ info = 0) => SameTotal(variable, before, NumCells(shape))

\* C7 amended: when the spacing along each axis is the same at every voxel,
\* the exact solution has the same sum as the field before the step, the
\* returned field has that sum too when the solution has no negative entry,
\* and otherwise clipping makes its sum larger.
C7_MassConservedUniformUnclipped ==
    (call = "grid" /\ info = 0 /\ UniformSpacing) =>
        LET len == NumCells(shape)
        IN /\ SameTotal(result, before, len)
           /\ ~HasNegative(result) => SameTotal(variable, before, len)
           /\ HasNegative(result) =>
                 SumTo(variable.n, len) * before.d > SumTo(before.n, len) * variable.d

\* an exact step on a uniform grid that moved mass between voxels
C7_Witness ==
    /\ call = "grid" /\ info = 0 /\ UniformSpacing
    /\ ~HasNegative(result)
    /\ \E i \in Indices(shape) : before.n[i] = 0 /\ variable.n[i] > 0
    /\ SameTotal(variable, before, NumCells(shape))

(***************************************************************************)
(* Properties of chemotaxis                                                *)
(***************************************************************************)
\* agent a was processed by the last chemotaxis pass
Processed(a) == chemo \in {"macrophage", "phagocyte", "advance"} /\ moves[a].run

\* agent a was given a new position by the last chemotaxis pass
Relocated(a) == Processed(a) /\ moves[a].sel # 0

\* the tissue types that permit occupancy
OccupiableTissues == {SURFACTANT, BLOOD, EPITHELIUM, PORE}

\* the representative coordinate (centre) of voxel v
VoxelCentre(sh, dl, v) ==
    [x |-> xv(dl, 3, v.x) + (xv(dl, 3, v.x + 1) - xv(dl, 3, v.x)) \div 2,
     y |-> xv(dl, 2, v.y) + (xv(dl, 2, v.y + 1) - xv(dl, 2, v.y)) \div 2,
     z |-> xv(dl, 1, v.z) + (xv(dl, 1, v.z + 1) - xv(dl, 1, v.z)) \div 2]

\* the k-th of the 27 offsets in the order x, then y, then z, each 0, +1, -1
StandardOffset(k) ==
    [x |-> <<0, 1, -1>>[((k - 1) \div 9) + 1],
     y |-> <<0, 1, -1>>[(((k - 1) \div 3) % 3) + 1],
     z |-> <<0, 1, -1>>[((k - 1) % 3) + 1]]

\* the k-th candidate voxel of an agent in voxel v
StandardCandidate(v, k) ==
    [x |-> v.x + StandardOffset(k).x, y |-> v.y + StandardOffset(k).y,
     z |-> v.z + StandardOffset(k).z]

\* candidate voxel c may be occupied
Eligible(c) ==
    is_valid_voxel(shape, c) /\ tissue[get_flattened_index(shape, c)] \in OccupiableTissues

\* C8: after a chemotaxis pass every relocated agent sits in a voxel of the
\* 27-neighbourhood of its previous voxel that lies inside the grid and has a
\* tissue type permitting occupancy, at that voxel's representative
\* coordinate.
C8_RelocatedIntoCandidate ==
    \A a \in 1 .. Len(cells) :
        Relocated(a) =>
            LET old == get_voxel(shape, delta, pre_cells[a].point)
                new == get_voxel(shape, delta, cells[a].point)
            IN /\ Abs(new.x - old.x) <= 1 /\ Abs(new.y - old.y) <= 1 /\ Abs(new.z - old.z) <= 1
               /\ Eligible(new)
               /\ cells[a].point = VoxelCentre(shape, delta, new)

\* C9: an agent whose 27 candidate weights are all zero has the same point and
\* the same voxel after the pass as before, for every draw.
C9_ZeroWeightsNoMove ==
    \A a \in 1 .. Len(cells) :
        (Processed(a) /\ \A k \in Candidates : moves[a].p[k] = 0) =>
            /\ cells[a].point = pre_cells[a].point
            /\ cells[a].voxel = pre_cells[a].voxel

\* C10: when the total weight is positive the selected candidate is the first
\* one, in the fixed order of the 27 offsets, whose cumulative normalised
\* weight reaches the draw; its weight is not zero; the agent moves into it;
\* and with a flat field and 27 eligible candidates every normalised weight
\* is 1/27.
C10_FirstMatchSelection ==
    \A a \in 1 .. Len(cells) :
        (Processed(a) /\ cum_p(moves[a].p, NumCandidates) > 0) =>
            LET m == moves[a]
                p_tot == cum_p(m.p, NumCandidates)
                reaches(k) == m.prob * p_tot <= DrawDen * cum_p(m.p, k)
            IN /\ m.sel \in Candidates
               /\ reaches(m.sel)
               /\ \A k \in 1 .. (m.sel - 1) : ~reaches(k)
               /\ m.p[m.sel] > 0
               /\ \A k \in Candidates : m.p[k] > 0 <=> Eligible(StandardCandidate(m.vox, k))
                                                     /\ logistic(molecule[get_flattened_index(
                                                            shape, StandardCandidate(m.vox, k))],
                                                            drift_bias) > 0
               /\ get_voxel(shape, delta, cells[a].point) = StandardCandidate(m.vox, m.sel)
               /\ ((\A k \in Candidates : Eligible(StandardCandidate(m.vox, k)))
                   /\ (\A i, j \in Indices(shape) : molecule[i] = molecule[j]))
                  => \A k \in Candidates : NumCandidates * m.p[k] = p_tot

(***************************************************************************)
(* Properties of the agent population                                      *)
(***************************************************************************)
\* the last call on the population ran a chemotaxis pass that drew its own
\* uniform values
DrawingPass == chemo \in {"phagocyte", "advance"}

\* C11: a chemotaxis pass over a population with n living agents draws exactly
\* n uniform values, and the i-th living agent is moved by the i-th of them.
C11_OneDrawPerAgent ==
    DrawingPass =>
        /\ Len(draws) = Len(alive_seq(pre_cells))
        /\ \A i \in 1 .. Len(draws) :
               moves[alive_seq(pre_cells)[i]].run
                   => moves[alive_seq(pre_cells)[i]].prob = draws[i]

\* C12: a living agent that is not movement-eligible (not RESTING, or outside
\* the grid) has the same position after a chemotaxis pass as before it.
C12_OnlyMoveableRelocated ==
    chemo \in {"macrophage", "phagocyte", "advance"} =>
        \A a \in alive(pre_cells) :
            a \notin is_moveable(shape, delta, pre_cells)
                => cells[a].point = pre_cells[a].point

\* C13: the voxel index recorded for every agent is the voxel that contains
\* the agent's position, after placement, Macrophage.advance and every
\* chemotaxis pass.
C13_VoxelIndexConsistent ==
    \A a \in 1 .. Len(cells) : cells[a].voxel = get_voxel(shape, delta, cells[a].point)

\* a phagocyte pass moved two agents, each into another voxel
C13_Witness ==
    /\ chemo = "phagocyte"
    /\ Len(cells) = 2
    /\ \A a \in 1 .. Len(cells) :
          /\ Relocated(a)
          /\ cells[a].voxel # pre_cells[a].voxel
          /\ cells[a].voxel = get_voxel(shape, delta, cells[a].point)

\* C14: every stochastic decision consumes from one and the same generator:
\* at most one generator has been consumed from.
C14_SingleGenerator ==
    Cardinality({ g \in DOMAIN generators : generators[g] > 0 }) <= 1

ExceedsDraw(weights, u, i) ==
    DrawDen * np_sum(weights, i) > u * np_sum(weights, Len(weights))

\* C16: choose_voxel_by_prob returns a member of voxels or the default; the
\* default when the weights sum to zero; and otherwise voxels[i] for the
\* smallest i whose cumulative normalised weight strictly exceeds the draw,
\* whose weight is not zero.
C16_ChooseVoxelByProb ==
    util_call = "choose_voxel_by_prob" =>
        LET a == util_args
            n == Len(a.weights)
        IN /\ util_out.kind = "value"
           /\ util_out.val = a.default_value \/ \E i \in 1 .. n : util_out.val = a.voxels[i]
           /\ np_sum(a.weights, n) = 0 => util_out.val = a.default_value
           /\ np_sum(a.weights, n) > 0 =>
                 \E i \in 1 .. n :
                    /\ util_out.idx = i - 1
                    /\ util_out.val = a.voxels[i]
                    /\ ExceedsDraw(a.weights, a.u, i)
                    /\ \A j \in 1 .. (i - 1) : ~ExceedsDraw(a.weights, a.u, j)
                    /\ a.weights[i] > 0

\* the draw 0.0 with a first voxel of weight zero: the second voxel is returned
C16_Witness ==
    /\ util_call = "choose_voxel_by_prob"
    /\ util_args.u = 0
    /\ Len(util_args.weights) = 3
    /\ util_args.weights[1] = 0 /\ util_args.weights[2] > 0
    /\ util_out.val = util_args.voxels[2]
    /\ util_out.val # util_args.default_value

\* C17: with x_system == 0, turnover_rate returns exp(-r*t) at every entry
\* where x > 0 and 0 at every entry where x == 0.
C17_TurnoverZeroSystem ==
    (util_call = "turnover_rate" /\ util_args.x_system = 0) =>
        \A i \in DOMAIN util_args.x :
            /\ util_args.x[i] > 0 => Same(util_out.val[i], np_exp_neg(util_args.k))
            /\ util_args.x[i] = 0 => Same(util_out.val[i], Zero)

\* C18: every entry of the factor returned by turnover_rate lies in [0, 1].
C18_TurnoverInUnitInterval ==
    util_call = "turnover_rate" =>
        \A i \in DOMAIN util_args.x :
            ~Less(util_out.val[i], Zero) /\ ~Less(<<1, 1>>, util_out.val[i])

\* the reference rate h*k_cat*enzyme*substrate / (substrate + k_m*volume)
ReferenceRate(a, substrate) ==
    <<a.h * a.k_cat * a.enzyme * substrate, substrate + a.k_m * a.volume>>

C20_ZeroDenominatorYieldsZero ==
    /\ (util_call = "michaelian_kinetics"
        /\ util_args.substrate + util_args.k_m * util_args.volume = 0)
          => (util_out.kind = "value" /\ Same(util_out.val, Zero))
    /\ (util_call = "activation_function" /\ util_args.k_d * util_args.volume = 0)
          => (util_out.kind = "value" /\ Same(util_out.val, Zero))

\* C21: activation_function returns a value in [0, h] for x >= 0, positive
\* k_d and volume, h >= 0 and every baseline b.
C21_ActivationInRange ==
    (/\ util_call = "activation_function"
     /\ util_args.k_d > 0 /\ util_args.volume > 0)
       => /\ util_out.kind = "value"
          /\ util_out.val[1] >= 0
          /\ util_out.val[1] <= util_args.h * util_out.val[2]

\* C21 as amended: activation_function returns a value in [0, h] for x >= 0,
\* positive k_d and volume, h >= 0 and a baseline 0 <= b <= 1.
C21_ActivationInRangeUnitBaseline ==
    (/\ util_call = "activation_function"
     /\ util_args.k_d > 0 /\ util_args.volume > 0
     /\ util_args.b >= 0 /\ util_args.b <= 1)
       => /\ util_out.kind = "value"
          /\ util_out.val[1] >= 0
          /\ util_out.val[1] <= util_args.h * util_out.val[2]

\* activation_function(x=2, k_d=2, h=2, volume=1) with the default b=1 has
\* returned 2 * (1 - 1/2) = 1, strictly between 0 and h
C21_Witness ==
    /\ util_call = "activation_function"
    /\ util_args.x = 2 /\ util_args.k_d = 2 /\ util_args.volume = 1
    /\ util_args.h = 2 /\ util_args.b = 1
    /\ util_out.kind = "value" /\ Same(util_out.val, <<1, 1>>)

\* C22: iron_tf_reaction returns at every entry a fraction in [0, 1], for
\* all non-negative iron, tf, tf_fe and all coefficients p1, p2, p3, and
\* exactly 0 at every entry where 2*(tf + tf_fe) is zero.
C22_BoundFractionInUnitInterval ==
    util_call = "iron_tf_reaction" =>
        \A i \in DOMAIN util_out.val :
            /\ util_out.val[i][1] >= 0
            /\ util_out.val[i][1] <= util_out.val[i][2]
            /\ (2 * (util_args.tf[i] + util_args.tf_fe[i]) = 0
                  => Same(util_out.val[i], Zero))

\* the three edge vectors from points[1] are linearly dependent
Degenerate(points) ==
    det3([j \in 1 .. 3 |-> points[2][j] - points[1][j]],
         [j \in 1 .. 3 |-> points[3][j] - points[1][j]],
         [j \in 1 .. 3 |-> points[4][j] - points[1][j]]) = 0

\* g . (p_i - p_0) = f_i - f_0 for the vector g of rationals
SatisfiesGradient(g, field, points, i) ==
    LET e == [j \in 1 .. 3 |-> points[i + 1][j] - points[1][j]]
    IN e[1] * g[1][1] * g[2][2] * g[3][2]
         + e[2] * g[2][1] * g[1][2] * g[3][2]
         + e[3] * g[3][1] * g[1][2] * g[2][2]
       = (field[i + 1] - field[1]) * g[1][2] * g[2][2] * g[3][2]

\* C23: tetrahedral_gradient returns the vector g with
\* g . (p_i - p_0) = f_i - f_0 for i = 1, 2, 3 when the tetrahedron is not
\* degenerate, and fails with an error when it is degenerate.
C23_GradientOrError ==
    util_call = "tetrahedral_gradient" =>
        IF Degenerate(util_args.points)
        THEN util_out.kind = "LinAlgError"
        ELSE /\ util_out.kind = "value"
             /\ \A i \in 1 .. 3 :
                   SatisfiesGradient(util_out.val, util_args.field, util_args.points, i)

\* the non-degenerate half of C23 taken alone
C23_GradientWhenNotDegenerate ==
    (util_call = "tetrahedral_gradient" /\ ~Degenerate(util_args.points)) =>
        /\ util_out.kind = "value"
        /\ \A i \in 1 .. 3 :
              SatisfiesGradient(util_out.val, util_args.field, util_args.points, i)

\* C24: in TAFC.advance the iron moved from transferrin to TAFC at a voxel
\* (dfe2dt + dfedt after the ratio is applied) exceeds neither the
\* Michaelis-Menten rate computed for it nor the unbound TAFC of the voxel,
\* so that TAFC, TAFCBI, TfFe2, TfFe and Tf are all non-negative after the
\* interaction with transferrin.
C24_TransferBounded ==
    module_call = "tafc" =>
        \A i \in DOMAIN locals.transfer :
            LET tr == locals.transfer[i]
                moved == QAdd(tr.dfe2dt, tr.dfedt)
                after == locals.after_transferrin
            IN /\ ~Less(QAdd(tr.rate2, tr.rate1), moved)
               /\ ~Less(locals.before.tafc.TAFC[i], moved)
               /\ after.tafc.TAFC[i][1] >= 0 /\ after.tafc.TAFCBI[i][1] >= 0
               /\ after.transferrin.TfFe2[i][1] >= 0 /\ after.transferrin.TfFe[i][1] >= 0
               /\ after.transferrin.Tf[i][1] >= 0

\* C25: macrophage.chemotaxis and PhagocyteCellList.chemotaxis agree on the
\* candidates: for an agent in voxel vox both enumerate the 27 voxels vox plus
\* an offset in {-1, 0, +1} per axis, and the weight of a candidate is its
\* logistic weight exactly when it is in bounds and its tissue type is
\* SURFACTANT, BLOOD, EPITHELIUM or PORE, and zero otherwise.
C25_SameEligibility ==
    \A a \in 1 .. Len(moves) :
        Processed(a) =>
            \A k \in Candidates :
                /\ moves[a].vox_list[k] = << StandardOffset(k).x, StandardOffset(k).y,
                                              StandardOffset(k).z >>
                /\ moves[a].p[k] =
                      IF Eligible(StandardCandidate(moves[a].vox, k))
                      THEN logistic(molecule[get_flattened_index(shape,
                                        StandardCandidate(moves[a].vox, k))], drift_bias)
                      ELSE 0

\* C25 for the passes of PhagocyteCellList.chemotaxis alone
C25_PhagocyteEligibility ==
    chemo = "phagocyte" => C25_SameEligibility

RECURSIVE QSumSeq(_, _)
\* pool of agent 1 + ... + pool of agent k
QSumSeq(cs, k) == IF k = 0 THEN Zero ELSE QAdd(cs[k].iron_pool, QSumSeq(cs, k - 1))

RECURSIVE QSumGrid(_, _)
\* grid[0] + ... + grid[k - 1]
QSumGrid(grid, k) == IF k = 0 THEN Zero ELSE QAdd(grid[k - 1], QSumGrid(grid, k - 1))

\* the iron of the field plus the iron of the pools
TotalIron(grid, cs) == QAdd(QSumGrid(grid, NumCells(shape)), QSumSeq(cs, Len(cs)))

\* C27: interact conserves iron: the sum of the iron field over the voxels
\* plus the sum of the iron pools of the agents is the same after interact as
\* before, for every population, field and outcome of the draws, and the
\* iron pool of an agent that is not alive is untouched.
C27_IronConserved ==
    module_call = "interact" =>
        /\ TotalIron(iron_grid, cells) = TotalIron(locals.before, pre_cells)
        /\ \A a \in 1 .. Len(cells) :
              a \notin alive(pre_cells) => cells[a].iron_pool = pre_cells[a].iron_pool

\* interact took iron up into the pool of a living agent and released part of
\* the pool, so that field and pool both changed, next to a dead agent
C27_Witness ==
    /\ module_call = "interact"
    /\ \E a \in alive(pre_cells) :
          /\ locals.below[a]
          /\ cells[a].iron_pool # pre_cells[a].iron_pool
    /\ iron_grid # locals.before
    /\ \E d \in 1 .. Len(cells) : d \notin alive(pre_cells) /\ pre_cells[d].iron_pool # Zero

\* the amount present at the four points of element e: the sum of
\* concentration times dual volume
AmountPresent(point_field, point_dual_volumes, e) ==
    LET at(j) == QMul(point_field[element_point_indices[e][j]],
                      Q(point_dual_volumes[element_point_indices[e][j]]))
    IN QAdd(QAdd(at(1), at(2)), QAdd(at(3), at(4)))

\* the elements a call names
ElementsOf(element_index) ==
    IF element_index.isscalar THEN {element_index.value}
    ELSE { element_index.value[i] : i \in DOMAIN element_index.value }

\* C28: uptake_in_element never makes a point value negative: for a
\* non-negative point field, positive dual volumes and an amount not larger
\* than the amount present at the four points of the element, every one of
\* the four point concentrations is still >= 0 after the call.
C28_UptakeNonNegative ==
    (/\ util_call = "uptake_in_element"
     /\ \A e \in ElementsOf(util_args.element_index) :
           ~Less(AmountPresent(util_args.point_field, util_args.point_dual_volumes, e),
                 Q(util_args.amount)))
       => \A p \in MeshPoints :
             /\ util_out.field[p] # NaN
             /\ ~Less(util_out.field[p], Zero)

\* the same for a call that names one element once and a field that is not
\* zero at all four of its points
C28_UptakeNonNegativeOneElement ==
    (/\ util_call = "uptake_in_element"
     /\ ~util_args.element_index.isscalar
     /\ Len(util_args.element_index.value) = 1
     /\ \E p \in MeshPoints : util_args.point_field[p] # Zero
     /\ \A e \in ElementsOf(util_args.element_index) :
           ~Less(AmountPresent(util_args.point_field, util_args.point_dual_volumes, e),
                 Q(util_args.amount)))
       => \A p \in MeshPoints :
             /\ util_out.field[p] # NaN
             /\ ~Less(util_out.field[p], Zero)

====
